---- MODULE Spec2Model ----
(***************************************************************************)
(* Model of the DynamoDB guidance evaluation pipeline                      *)
(* (src/dynamodb-mcp-server/tests/evals): score aggregation and quality    *)
(* classification (evaluation_config.py), numeric score recovery           *)
(* (basic_evaluator.py), result aggregation (dspy_evaluators.py), section  *)
(* extraction and the evaluation run (multiturn_evaluator.py).             *)
(*                                                                         *)
(* Numbers.  A Python float that comes from a decimal literal is modelled  *)
(* as an exact decimal [m |-> mantissa, s |-> scale], the value m / 10^s.  *)
(* Texts.  A Python str is a sequence of symbols; a symbol is a string     *)
(* that the operations of the model never look inside.                     *)
(***************************************************************************)
EXTENDS Integers, Sequences, FiniteSets, TLC

VARIABLES
    cfgPhase,     \* EvaluationConfig: "start", "scored", "classified"
    cfgFamily,    \* "datamodel", "session", "probe" or "none"
    cfgScores,    \* the Dict[dimension, float] handed to calculate_*_eval_score
    cfgOverall,   \* the value calculate_*_eval_score returned (or the probed score)
    cfgLevel,     \* the value get_quality_level returned
    recPhase,     \* extract_numeric_score: "start", "done"
    recText,      \* its argument text
    recScore,     \* the value it returned
    aggPhase,     \* _aggregate_*_results: "start", "done"
    aggFamily,    \* "datamodel" (_aggregate_evaluation_results) or "session"
    aggFields,    \* the engine's raw <dimension>_score output fields
    aggResult,    \* the EvaluationResult / SessionEvaluationResult built
    extPhase,     \* extract_guidance_sections: "start", "done"
    extGuidance,  \* its argument final_guidance
    extOutcome,   \* what the call did: the pair it returned, or the exception raised
    docPhase,     \* a document-loader tool: "start", "done"
    docCall,      \* the tool called and the file its file_path names
    docOutcome,   \* what the call did: the value it returned, or the exception raised
    txtPhase,     \* _to_text: "start", "done"
    txtResponse,  \* its argument x
    txtOutcome,   \* what the call did: the text it returned, or the exception raised
    runPc,            \* run_evaluation / evaluate_scenarios: the position of the run
    runEnv,           \* os.environ: AWS_PROFILE, AWS_ACCESS_KEY_ID, AWS_SECRET_ACCESS_KEY
    runEnvTouched,    \* whether the environment was changed between import and call
    runEvaluator,     \* the attributes EnhancedMultiTurnEvaluator.__init__ has set
    runConversation,  \* the ConversationTurn list of simulate_conversation
    runAgentCalls,    \* the calls of the Strands agent: "returned" or "raised"
    runConversationRaised, \* whether simulate_conversation ended in its except clause
    runGuidance,      \* final_guidance
    runSections,      \* what extract_guidance_sections did with final_guidance
    runKnowledgeCache, \* DSPyEvaluationEngine._expert_knowledge_cache
    runEngineCalls,   \* the DSPyEvaluationEngine methods invoked, in order
    runReasonerCalls, \* the calls of the DSPy evaluators (the reasoning engine), in order
    runSessionEvaluation, \* session_evaluation_result (NoResult is None)
    runModelEvaluation,   \* model_evaluation_result (NoResult is None)
    runResult,        \* what evaluate_with_conversation returned
    runReport,        \* the dictionary evaluate_scenarios returned
    engCache,         \* one engine's _expert_knowledge_cache
    engPc,            \* each caller's position in evaluate_session / evaluate_guidance
    engMethod,        \* the engine method each caller is in
    engLocal,         \* each caller's local value: the text read, then expert_knowledge
    engFileReads,     \* how many times the expert-knowledge document was opened
    engCacheWrites,   \* the values assigned to _expert_knowledge_cache, in order
    engPassed,        \* the evaluator calls made, with the expert knowledge passed
    timPc,            \* evaluate_scenarios, its durations alone: the position
    timClock,         \* time.time(), in ticks since start_time
    timDurations,     \* conversation_duration, session_eval_duration, model_eval_duration
    timEvaluated,     \* whether the two evaluations were run
    timTotal,         \* the local total_duration of evaluate_with_conversation
    timReport         \* status and performance_metadata of the report

cfgVars == <<cfgPhase, cfgFamily, cfgScores, cfgOverall, cfgLevel>>
recVars == <<recPhase, recText, recScore>>
aggVars == <<aggPhase, aggFamily, aggFields, aggResult>>
extVars == <<extPhase, extGuidance, extOutcome>>
docVars == <<docPhase, docCall, docOutcome>>
txtVars == <<txtPhase, txtResponse, txtOutcome>>
runEnvVars == <<runEnv, runEnvTouched, runEvaluator>>
runConversationVars ==
    <<runConversation, runAgentCalls, runConversationRaised, runGuidance>>
runEngineVars ==
    <<runKnowledgeCache, runEngineCalls, runReasonerCalls,
      runSessionEvaluation, runModelEvaluation>>
runVars == <<runPc, runEnvVars, runConversationVars, runSections, runEngineVars,
             runResult, runReport>>

engVars == <<engCache, engPc, engMethod, engLocal, engFileReads, engCacheWrites,
             engPassed>>

timVars == <<timPc, timClock, timDurations, timEvaluated, timTotal, timReport>>

vars == <<cfgVars, recVars, aggVars, extVars, docVars, txtVars, runVars, engVars,
          timVars>>

\* Each operation belongs to one component and leaves the others alone.
OtherThanConfig ==
    <<recVars, aggVars, extVars, docVars, txtVars, runVars, engVars, timVars>>
OtherThanRecovery ==
    <<cfgVars, aggVars, extVars, docVars, txtVars, runVars, engVars, timVars>>
OtherThanAggregate ==
    <<cfgVars, recVars, extVars, docVars, txtVars, runVars, engVars, timVars>>
OtherThanExtract ==
    <<cfgVars, recVars, aggVars, docVars, txtVars, runVars, engVars, timVars>>
OtherThanDocument ==
    <<cfgVars, recVars, aggVars, extVars, txtVars, runVars, engVars, timVars>>
OtherThanText ==
    <<cfgVars, recVars, aggVars, extVars, docVars, runVars, engVars, timVars>>
OtherThanRun ==
    <<cfgVars, recVars, aggVars, extVars, docVars, txtVars, engVars, timVars>>
OtherThanEngine ==
    <<cfgVars, recVars, aggVars, extVars, docVars, txtVars, runVars, timVars>>
OtherThanTiming ==
    <<cfgVars, recVars, aggVars, extVars, docVars, txtVars, runVars, engVars>>

(***************************************************************************)
(* Bounds of the model.                                                    *)
(***************************************************************************)
\* calculate_*_eval_score is applied to scores 1 + 9*i/ScoreSteps (in hundredths).
ScoreSteps == 7
\* get_quality_level is probed on every score k/100, k in 0..MaxProbe.
MaxProbe == 1100
\* extract_numeric_score is applied to every text of at most MaxTextLen symbols
\* of RecoveryAlphabet (and to the sample texts).
MaxTextLen == 4
\* and to every text of at most KeywordTextLen symbols of KeywordAlphabet.
KeywordTextLen == 3
\* extract_guidance_sections is applied to every markdown content made of at
\* most MaxSegments segments of ContentSegments (and to the sample contents).
MaxSegments == 6
\* In a run the agent answers with a message whose markdown content is made of
\* at most MaxRunSegments segments of ContentSegments (or is a sample content).
MaxRunSegments == 2
\* One engine serves at most MaxEngineCalls evaluate_session / evaluate_guidance
\* calls.
MaxEngineCalls == 3
\* Each phase of a run takes at most MaxTicks ticks of the clock.
MaxTicks == 2

(***************************************************************************)
(* Exact decimals.                                                         *)
(***************************************************************************)
\* The element of a set of one element.  Only({ e : x \in {v} }) is e with x
\* standing for the value of v: an assignment "x = v" followed by code that
\* uses x.  The value is computed once, however often e uses x.
Only(S) == CHOOSE r \in S : TRUE

\* The function f with every entry computed: a dict that has been built.
Tabulated(f) == CHOOSE g \in {f} : g = g

RECURSIVE Pow10(_)
Pow10(n) == IF n = 0 THEN 1 ELSE 10 * Pow10(n - 1)

Dec(m, s) == [m |-> m, s |-> s]

MaxOf(a, b) == IF a >= b THEN a ELSE b

DecLess(a, b) == a.m * Pow10(b.s) < b.m * Pow10(a.s)
DecLeq(a, b) == a.m * Pow10(b.s) <= b.m * Pow10(a.s)
DecEq(a, b) == a.m * Pow10(b.s) = b.m * Pow10(a.s)
DecGeq(a, b) == DecLeq(b, a)
DecGreater(a, b) == DecLess(b, a)

\* float + float
DecAdd(a, b) ==
    Only({ Only({ Dec(x.m * Pow10(s - x.s) + y.m * Pow10(s - y.s), s) :
                  s \in {MaxOf(x.s, y.s)} }) :
           x \in {a}, y \in {b} })

\* round(total / n, 2): the nearest multiple of 0.01; a value exactly halfway
\* between two multiples goes to the even one (Python 3 round()).
RoundQuotient2(total, n) ==
    Only({ Only({ Only({ Dec(IF 2 * r < den THEN q
                             ELSE IF 2 * r > den THEN q + 1
                             ELSE IF q % 2 = 0 THEN q ELSE q + 1, 2) :
                         r \in {num - q * den} }) :
                  q \in {num \div den} }) :
           num \in {100 * total.m}, den \in {n * Pow10(total.s)} })

(***************************************************************************)
(* evaluation_config.py                                                    *)
(***************************************************************************)
EvaluationDimension ==
    {"completeness", "technical_accuracy", "access_pattern_coverage",
     "scalability_considerations", "cost_optimization"}

SessionDimension ==
    {"requirements_engineering", "access_pattern_analysis",
     "methodology_adherence", "technical_reasoning", "process_documentation"}

\* QUALITY_THRESHOLDS["excellent"], ["good"], ["acceptable"], ["needs_improvement"]
ThresholdExcellent == Dec(85, 1)
ThresholdGood == Dec(70, 1)
ThresholdAcceptable == Dec(55, 1)
ThresholdNeedsImprovement == Dec(40, 1)

QualityLevels == {"excellent", "good", "acceptable", "needs_improvement", "poor"}

\* A mean that drops the last dimension and still divides by the family size.
calculate_datamodel_eval_score_dropped(scores) ==
    RoundQuotient2(
        DecAdd(DecAdd(DecAdd(scores["completeness"],
                             scores["technical_accuracy"]),
                      scores["access_pattern_coverage"]),
               scores["scalability_considerations"]),
        Cardinality(EvaluationDimension))

calculate_datamodel_eval_score(scores) ==
    RoundQuotient2(
        DecAdd(DecAdd(DecAdd(DecAdd(scores["completeness"],
                                    scores["technical_accuracy"]),
                             scores["access_pattern_coverage"]),
                      scores["scalability_considerations"]),
               scores["cost_optimization"]),
        Cardinality(EvaluationDimension))

calculate_session_eval_score(scores) ==
    RoundQuotient2(
        DecAdd(DecAdd(DecAdd(DecAdd(scores["requirements_engineering"],
                                    scores["access_pattern_analysis"]),
                             scores["methodology_adherence"]),
                      scores["technical_reasoning"]),
               scores["process_documentation"]),
        Cardinality(SessionDimension))

\* The cascade with strict comparisons: a score on a threshold falls one band.
get_quality_level_strict(score) ==
    IF DecGreater(score, ThresholdExcellent) THEN "excellent"
    ELSE IF DecGreater(score, ThresholdGood) THEN "good"
    ELSE IF DecGreater(score, ThresholdAcceptable) THEN "acceptable"
    ELSE IF DecGreater(score, ThresholdNeedsImprovement) THEN "needs_improvement"
    ELSE "poor"

get_quality_level(score) ==
    IF DecGeq(score, ThresholdExcellent) THEN "excellent"
    ELSE IF DecGeq(score, ThresholdGood) THEN "good"
    ELSE IF DecGeq(score, ThresholdAcceptable) THEN "acceptable"
    ELSE IF DecGeq(score, ThresholdNeedsImprovement) THEN "needs_improvement"
    ELSE "poor"

(***************************************************************************)
(* EvaluationConfig applied to bounded inputs.                             *)
(***************************************************************************)
\* Scores of [1, 10] with two decimals: 1.00, ..., 10.00 in ScoreSteps steps.
ScoreGrid == { Dec(100 + (900 * i) \div ScoreSteps, 2) : i \in 0..ScoreSteps }

ProbeScores == { Dec(k, 2) : k \in 0..MaxProbe }

NoScores == <<>>
NoNumber == Dec(0, 0)

ConfigIdle ==
    /\ cfgPhase = "idle"
    /\ cfgFamily = "none"
    /\ cfgScores = NoScores
    /\ cfgOverall = NoNumber
    /\ cfgLevel = "none"

ConfigInit ==
    /\ cfgPhase = "start"
    /\ cfgFamily = "none"
    /\ cfgScores = NoScores
    /\ cfgOverall = NoNumber
    /\ cfgLevel = "none"

CalculateDatamodel ==
    /\ cfgPhase = "start"
    /\ \E scores \in [EvaluationDimension -> ScoreGrid] :
          /\ cfgScores' = scores
          /\ cfgOverall' = calculate_datamodel_eval_score(scores)
    /\ cfgFamily' = "datamodel"
    /\ cfgPhase' = "scored"
    /\ UNCHANGED cfgLevel
    /\ UNCHANGED OtherThanConfig

CalculateSession ==
    /\ cfgPhase = "start"
    /\ \E scores \in [SessionDimension -> ScoreGrid] :
          /\ cfgScores' = scores
          /\ cfgOverall' = calculate_session_eval_score(scores)
    /\ cfgFamily' = "session"
    /\ cfgPhase' = "scored"
    /\ UNCHANGED cfgLevel
    /\ UNCHANGED OtherThanConfig

\* get_quality_level(overall_score), as both aggregators call it.
ClassifyOverall ==
    /\ cfgPhase = "scored"
    /\ cfgLevel' = get_quality_level(cfgOverall)
    /\ cfgPhase' = "classified"
    /\ UNCHANGED <<cfgFamily, cfgScores, cfgOverall>>
    /\ UNCHANGED OtherThanConfig

\* get_quality_level(score) on an arbitrary score.
ClassifyProbe ==
    /\ cfgPhase = "start"
    /\ \E p \in ProbeScores :
          /\ cfgOverall' = p
          /\ cfgLevel' = get_quality_level(p)
    /\ cfgFamily' = "probe"
    /\ cfgPhase' = "classified"
    /\ UNCHANGED cfgScores
    /\ UNCHANGED OtherThanConfig

ConfigNext ==
    \/ CalculateDatamodel
    \/ CalculateSession
    \/ ClassifyOverall
    \/ ClassifyProbe

(***************************************************************************)
(* Texts.                                                                  *)
(***************************************************************************)
\* Python's None where a str is expected: a one-symbol text no input contains.
PyNone == <<"<None>">>

\* bool(text): None and the empty string are falsy.
Truthy(text) == text # PyNone /\ text # <<>>

DigitSeq == <<"0", "1", "2", "3", "4", "5", "6", "7", "8", "9">>
IsDigit(c) == \E k \in 1..10 : DigitSeq[k] = c
DigitValue(c) == (CHOOSE k \in 1..10 : DigitSeq[k] = c) - 1

\* \s of re, and the characters str.split() and str.strip() treat as whitespace.
IsSpace(c) == c \in {" ", "\n", "\t"}

\* str.lower() on one symbol: the capitalised words of the inputs.
LowerSymbol(c) ==
    CASE c = "Score" -> "score"
      [] c = "Rating" -> "rating"
      [] c = "Excellent" -> "excellent"
      [] c = "Good" -> "good"
      [] c = "Adequate" -> "adequate"
      [] c = "Poor" -> "poor"
      [] OTHER -> c

Lower(text) == [i \in 1..Len(text) |-> LowerSymbol(text[i])]

\* text without lowering (str.lower() left out).
LowerIdentity(text) == text

\* float(group) for a group matched by \d+\.?\d* : the digits before and after
\* the point.
RECURSIVE DigitsValue(_)
DigitsValue(ds) ==
    IF ds = <<>> THEN 0
    ELSE 10 * DigitsValue(SubSeq(ds, 1, Len(ds) - 1)) + DigitValue(ds[Len(ds)])

PointIndex(g) == IF \E i \in 1..Len(g) : g[i] = "."
                 THEN CHOOSE i \in 1..Len(g) : g[i] = "."
                 ELSE 0

FloatOfGroup(g) ==
    LET p == PointIndex(g)
    IN  IF p = 0 THEN Dec(DigitsValue(g), 0)
        ELSE Dec(DigitsValue(SubSeq(g, 1, p - 1) \o SubSeq(g, p + 1, Len(g))),
                 Len(g) - p)

(***************************************************************************)
(* basic_evaluator.py: extract_numeric_score                               *)
(***************************************************************************)
\* The index after the longest run of digits that starts at i (\d* at i).
RECURSIVE DigitsEnd(_, _)
DigitsEnd(t, i) ==
    IF i <= Len(t) /\ IsDigit(t[i]) THEN DigitsEnd(t, i + 1) ELSE i

\* The index after the longest run of whitespace that starts at i (\s* at i).
RECURSIVE SpacesEnd(_, _)
SpacesEnd(t, i) ==
    IF i <= Len(t) /\ IsSpace(t[i]) THEN SpacesEnd(t, i + 1) ELSE i

\* (\d+\.?\d*) at i: the index after the group, or 0 when t[i] is no digit.
NumberEnd(t, i) ==
    IF i > Len(t) \/ ~IsDigit(t[i]) THEN 0
    ELSE LET j == DigitsEnd(t, i)
         IN  IF j <= Len(t) /\ t[j] = "." THEN DigitsEnd(t, j + 1) ELSE j

\* Whether the literal lit occurs in t at index i.
LiteralAt(t, i, lit) ==
    /\ i >= 1
    /\ i + Len(lit) - 1 <= Len(t)
    /\ SubSeq(t, i, i + Len(lit) - 1) = lit

Slash10 == <<"/", "1", "0">>
OutOf10 == <<"out of ", "1", "0">>

NoMatch == [ok |-> FALSE, group |-> <<>>, end |-> 0]
Match(g, e) == [ok |-> TRUE, group |-> g, end |-> e]

\* The patterns of the list, in its order; the group and the end of the match
\* of pattern k that starts at index i of t, if there is one.
\*   1  (?:score|rating):\s*(\d+\.?\d*)(?:/10)?
\*   2  (\d+\.?\d*)/10
\*   3  (\d+\.?\d*)\s*(?:out of 10|/10)
\*   4  (\d+\.?\d*)
\* Each quantifier is greedy, and no shorter choice lets a failed match succeed:
\* what follows a run of digits or whitespace never starts with one of them.
MatchAt(k, t, i) ==
    CASE k = 1 ->
            IF i + 1 <= Len(t) /\ t[i] \in {"score", "rating"} /\ t[i + 1] = ":"
            THEN LET n == SpacesEnd(t, i + 2)
                     e == NumberEnd(t, n)
                 IN  IF e = 0 THEN NoMatch
                     ELSE Match(SubSeq(t, n, e - 1),
                                IF LiteralAt(t, e, Slash10) THEN e + 3 ELSE e)
            ELSE NoMatch
      [] k = 2 ->
            LET e == NumberEnd(t, i)
            IN  IF e # 0 /\ LiteralAt(t, e, Slash10)
                THEN Match(SubSeq(t, i, e - 1), e + 3)
                ELSE NoMatch
      [] k = 3 ->
            LET e == NumberEnd(t, i)
                n == SpacesEnd(t, e)
            IN  IF e # 0 /\ (LiteralAt(t, n, OutOf10) \/ LiteralAt(t, n, Slash10))
                THEN Match(SubSeq(t, i, e - 1), n + 3)
                ELSE NoMatch
      [] k = 4 ->
            LET e == NumberEnd(t, i)
            IN  IF e # 0 THEN Match(SubSeq(t, i, e - 1), e) ELSE NoMatch

\* re.findall(pattern k, t): the groups of the non-overlapping matches, found
\* scanning from the left.
RECURSIVE FindAllFrom(_, _, _)
FindAllFrom(k, t, i) ==
    IF i > Len(t) THEN <<>>
    ELSE LET m == MatchAt(k, t, i)
         IN  IF m.ok THEN <<m.group>> \o FindAllFrom(k, t, m.end)
             ELSE FindAllFrom(k, t, i + 1)

FindAll(k, t) == FindAllFrom(k, t, 1)

\* len(patterns)
NumPatterns == 4

\* The order in which the for loop visits the patterns.
PatternOrderReversed == <<4, 3, 2, 1>>

PatternOrder == <<1, 2, 3, 4>>

\* if score > 10: score = score / 10, without the clamp that follows.
NormalizeUnclamped(score) ==
    IF DecGreater(score, Dec(10, 0)) THEN Dec(score.m, score.s + 1) ELSE score

\* if score > 10: score = score / 10; return max(1.0, min(10.0, score))
Normalize(score) ==
    LET n  == IF DecGreater(score, Dec(10, 0)) THEN Dec(score.m, score.s + 1)
              ELSE score
        lo == IF DecLess(Dec(10, 0), n) THEN Dec(10, 0) ELSE n
    IN  IF DecLess(Dec(1, 0), lo) THEN lo ELSE Dec(1, 0)

\* The keywords that occur in a (lowered) symbol as substrings: a keyword is
\* found in itself and inside a longer word.
KeywordsIn(c) ==
    CASE c \in {"excellent", "outstanding", "exceptional", "good", "solid", "well",
                "adequate", "acceptable", "reasonable", "poor", "lacking",
                "insufficient"} -> {c}
      [] c = "unwell" -> {"well"}
      [] c = "goodness" -> {"good"}
      [] OTHER -> {}

\* any(word in text_lower for word in words)
Contains(t, words) == \E i \in 1..Len(t) : KeywordsIn(t[i]) \cap words # {}

\* The bands tried from the last to the first.
KeywordScoreLastBandFirst(t) ==
    IF Contains(t, {"poor", "lacking", "insufficient"}) THEN Dec(40, 1)
    ELSE IF Contains(t, {"adequate", "acceptable", "reasonable"}) THEN Dec(65, 1)
    ELSE IF Contains(t, {"good", "solid", "well"}) THEN Dec(75, 1)
    ELSE IF Contains(t, {"excellent", "outstanding", "exceptional"}) THEN Dec(90, 1)
    ELSE Dec(70, 1)

\* The qualitative fallback, on text.lower().
KeywordScore(t) ==
    IF Contains(t, {"excellent", "outstanding", "exceptional"}) THEN Dec(90, 1)
    ELSE IF Contains(t, {"good", "solid", "well"}) THEN Dec(75, 1)
    ELSE IF Contains(t, {"adequate", "acceptable", "reasonable"}) THEN Dec(65, 1)
    ELSE IF Contains(t, {"poor", "lacking", "insufficient"}) THEN Dec(40, 1)
    ELSE Dec(70, 1)

\* The adjectives consulted before the numbers.
ScoreKeywordsFirst(text, n) ==
    LET t == Lower(text)
        hits == { k \in n..NumPatterns : FindAll(PatternOrder[k], t) # <<>> }
    IN  IF hits = {} \/ KeywordScore(t) # Dec(70, 1) THEN KeywordScore(t)
        ELSE LET k == CHOOSE h \in hits : \A g \in hits : h <= g
             IN  Normalize(FloatOfGroup(FindAll(PatternOrder[k], t)[1]))

\* The for loop over the patterns from position n of PatternOrder: the first
\* pattern with a match returns (float() of a matched group never fails).
RECURSIVE ScoreFromPatterns(_, _)
ScoreFromPatterns(text, n) ==
    IF n > NumPatterns THEN KeywordScore(Lower(text))
    ELSE LET matches == FindAll(PatternOrder[n], Lower(text))
         IN  IF matches # <<>>
             THEN Normalize(FloatOfGroup(matches[1]))
             ELSE ScoreFromPatterns(text, n + 1)

extract_numeric_score(text) ==
    IF ~Truthy(text) THEN Dec(70, 1)
    ELSE ScoreFromPatterns(text, 1)

(***************************************************************************)
(* extract_numeric_score applied to bounded inputs.                        *)
(***************************************************************************)
RecoveryAlphabet == {"Score", ":", " ", "/", ".", "0", "1", "9", "Excellent"}

RECURSIVE TextsUpTo(_, _)
TextsUpTo(alphabet, n) ==
    IF n = 0 THEN {<<>>}
    ELSE LET shorter == TextsUpTo(alphabet, n - 1)
         IN  shorter \cup { Append(t, c) : t \in shorter, c \in alphabet }

\* "Score: 8.5/10", "Rating: 7.2 out of 10", "Excellent work", "95"
TextScore85 == <<"Score", ":", " ", "8", ".", "5", "/", "1", "0">>
TextRating72 == <<"Rating", ":", " ", "7", ".", "2", " ", "out of ", "1", "0">>
TextExcellentWork == <<"Excellent", " ", "work">>
TextNinetyFive == <<"9", "5">>

\* The texts of the module's own test (lines 194-200) and texts in which a
\* later pattern's number comes before an earlier pattern's.
SampleTexts ==
    { PyNone, TextScore85, TextRating72, TextExcellentWork, TextNinetyFive,
      <<"Score", ":", " ", "8", ".", "5", "/", "1", "0", " ", "-", " ", "Good",
        " ", "schema", " ", "design">>,
      <<"Excellent", " ", "work", " ", "-", " ", "9", ".", "1">>,
      <<"Poor", " ", "implementation", " ", "with", " ", "score", " ", "3", ".", "5">>,
      <<"Adequate", " ", "solution">>,
      <<"1", " ", "9", "/", "1", "0">>,
      <<"5", " ", "Score", ":", " ", "8">>,
      <<"3", " ", "7", " ", "out of ", "1", "0">>,
      <<"2", " ", "8", " ", "/", "1", "0", " ", "Rating", ":", "6">>,
      <<"fine">> }

\* Quality adjectives of the four bands, one inside a longer word, and a digit.
KeywordAlphabet == {"Excellent", "Good", "adequate", "Poor", "unwell", " ", "1"}

RecoveryInputs ==
    TextsUpTo(RecoveryAlphabet, MaxTextLen)
    \cup TextsUpTo(KeywordAlphabet, KeywordTextLen)
    \cup SampleTexts

RecoveryIdle ==
    /\ recPhase = "idle"
    /\ recText = PyNone
    /\ recScore = NoNumber

RecoveryInit ==
    /\ recPhase = "start"
    /\ recText \in RecoveryInputs
    /\ recScore = NoNumber

ExtractNumericScore ==
    /\ recPhase = "start"
    /\ recScore' = extract_numeric_score(recText)
    /\ recPhase' = "done"
    /\ UNCHANGED recText
    /\ UNCHANGED OtherThanRecovery

RecoveryNext == ExtractNumericScore

(***************************************************************************)
(* dspy_evaluators.py: the result aggregators                              *)
(***************************************************************************)
\* The index after the run of non-whitespace symbols that starts at i.
RECURSIVE TokenEnd(_, _)
TokenEnd(t, i) ==
    IF i <= Len(t) /\ ~IsSpace(t[i]) THEN TokenEnd(t, i + 1) ELSE i

\* str.split(): the whitespace-separated tokens of t.
RECURSIVE SplitFrom(_, _)
SplitFrom(t, i) ==
    LET b == SpacesEnd(t, i)
        e == TokenEnd(t, b)
    IN  IF b > Len(t) THEN <<>>
        ELSE <<SubSeq(t, b, e - 1)>> \o SplitFrom(t, e)

Split(t) == SplitFrom(t, 1)

\* Whether float(token) parses: an optional sign, then digits with at most one
\* point and at least one digit.  (The inputs hold no exponent, underscore,
\* "inf" or "nan".)
IsFloatLiteral(token) ==
    LET body == IF token # <<>> /\ token[1] \in {"-", "+"} THEN Tail(token)
                ELSE token
    IN  /\ \E i \in 1..Len(body) : IsDigit(body[i])
        /\ \A i \in 1..Len(body) : IsDigit(body[i]) \/ body[i] = "."
        /\ Cardinality({i \in 1..Len(body) : body[i] = "."}) <= 1

PyFloat(token) ==
    LET neg  == token[1] = "-"
        body == IF token[1] \in {"-", "+"} THEN Tail(token) ELSE token
    IN  Only({ Dec(IF neg THEN -v.m ELSE v.m, v.s) : v \in {FloatOfGroup(body)} })

\* safe_float with ScoreRecovery's neutral 7.0 as its default.
safe_float_default7(value) ==
    IF ~Truthy(value) THEN Dec(70, 1)
    ELSE LET parts == Split(value)
         IN  IF parts = <<>> THEN Dec(70, 1)
             ELSE IF ~IsFloatLiteral(parts[1]) THEN Dec(70, 1)
             ELSE PyFloat(parts[1])

\* safe_float(value, default=0.0):
\*   float(str(value).split()[0]) if value else default,
\* IndexError (no token) and ValueError (float() fails) giving the default.
safe_float(value) ==
    IF ~Truthy(value) THEN Dec(0, 1)
    ELSE Only({ IF parts = <<>> THEN Dec(0, 1)
                ELSE IF ~IsFloatLiteral(parts[1]) THEN Dec(0, 1)
                ELSE PyFloat(parts[1]) :
                parts \in {Split(value)} })

\* The records hold the scores, overall_score and quality_level; the
\* justifications, str() copies of three or four more output fields, are left out.
aggregate_evaluation_results(guidance_result) ==
    Only({ Only({ [scores |-> scores,
                   overall_score |-> overall,
                   quality_level |-> get_quality_level(overall)] :
                  overall \in {calculate_datamodel_eval_score(scores)} }) :
           scores \in {Tabulated([d \in EvaluationDimension |-> safe_float(guidance_result[d])])} })

aggregate_session_evaluation_results(session_result) ==
    Only({ Only({ [scores |-> scores,
                   overall_score |-> overall,
                   quality_level |-> get_quality_level(overall)] :
                  overall \in {calculate_session_eval_score(scores)} }) :
           scores \in {Tabulated([d \in SessionDimension |-> safe_float(session_result[d])])} })

(***************************************************************************)
(* The aggregators applied to bounded engine outputs.                      *)
(***************************************************************************)
\* Raw score fields: absent, "", "8.5", "8/10", "Excellent", "95", "8 9/10", "n/a".
FieldTexts ==
    { PyNone, <<>>,
      <<"8", ".", "5">>,
      <<"8", "/", "1", "0">>,
      <<"Excellent">>,
      <<"9", "5">>,
      <<"8", " ", "9", "/", "1", "0">>,
      <<"n/a">> }

NoResult == [scores |-> NoScores, overall_score |-> NoNumber, quality_level |-> "none"]

DimensionsOf(family) ==
    IF family = "datamodel" THEN EvaluationDimension ELSE SessionDimension

AggregateIdle ==
    /\ aggPhase = "idle"
    /\ aggFamily = "none"
    /\ aggFields = NoScores
    /\ aggResult = NoResult

AggregateInit ==
    /\ aggPhase = "start"
    /\ aggFamily \in {"datamodel", "session"}
    /\ aggFields \in [DimensionsOf(aggFamily) -> FieldTexts]
    /\ aggResult = NoResult

AggregateEvaluationResults ==
    /\ aggPhase = "start"
    /\ aggFamily = "datamodel"
    /\ aggResult' = aggregate_evaluation_results(aggFields)
    /\ aggPhase' = "done"
    /\ UNCHANGED <<aggFamily, aggFields>>
    /\ UNCHANGED OtherThanAggregate

AggregateSessionEvaluationResults ==
    /\ aggPhase = "start"
    /\ aggFamily = "session"
    /\ aggResult' = aggregate_session_evaluation_results(aggFields)
    /\ aggPhase' = "done"
    /\ UNCHANGED <<aggFamily, aggFields>>
    /\ UNCHANGED OtherThanAggregate

AggregateNext ==
    \/ AggregateEvaluationResults
    \/ AggregateSessionEvaluationResults

(***************************************************************************)
(* Python values, as ast.literal_eval builds them.                         *)
(***************************************************************************)
PyInt == [t |-> "int"]
PyNoneValue == [t |-> "NoneType"]
PyStr(text) == [t |-> "str", v |-> text]
PyList(items) == [t |-> "list", items |-> items]
\* A dict is the sequence of its <<key, value>> pairs; the keys are strings.
PyDict(pairs) == [t |-> "dict", pairs |-> pairs]

Ok(value) == [exc |-> "none", val |-> value]
Raise(exception) == [exc |-> exception, val |-> PyNoneValue]

HasKey(d, k) == \E i \in 1..Len(d.pairs) : d.pairs[i][1] = k
Lookup(d, k) == d.pairs[CHOOSE i \in 1..Len(d.pairs) : d.pairs[i][1] = k][2]

\* obj[k] for a string k.
GetItemKey(obj, k) ==
    IF obj.t = "dict"
    THEN IF HasKey(obj, k) THEN Ok(Lookup(obj, k)) ELSE Raise("KeyError")
    ELSE Raise("TypeError")

\* obj[n] for an integer n >= 0 (no dict of the inputs has an integer key).
GetItemIndex(obj, n) ==
    CASE obj.t = "list" ->
            IF n < Len(obj.items) THEN Ok(obj.items[n + 1]) ELSE Raise("IndexError")
      [] obj.t = "str" ->
            IF n < Len(obj.v) THEN Ok(PyStr(<<obj.v[n + 1]>>)) ELSE Raise("IndexError")
      [] obj.t = "dict" -> Raise("KeyError")
      [] OTHER -> Raise("TypeError")

\* ast.literal_eval(final_guidance).  The raw text is given by what it denotes:
\* the Python literal of a value, or a text that is no literal together with
\* the exception literal_eval raises on it (SyntaxError for text that does not
\* parse, ValueError for a parsed non-literal such as a name, TypeError for a
\* literal with an unhashable dict key such as {[1]: 2}).
LiteralText(value) == [kind |-> "literal", value |-> value, raises |-> "none"]
MalformedText(exception) ==
    [kind |-> "malformed", value |-> PyNoneValue, raises |-> exception]

literal_eval(text) ==
    IF text.kind = "literal" THEN Ok(text.value) ELSE Raise(text.raises)

(***************************************************************************)
(* multiturn_evaluator.py: extract_guidance_sections                       *)
(***************************************************************************)
\* The symbol "<fence>" is the three-backquote fence; FenceOpen is the opening
\* marker, the fence followed by "markdown" and a newline.
FenceOpen == <<"<fence>", "markdown", "\n">>
Fence == <<"<fence>">>

\* markdown_content.replace('\\n', '\n'): the two-character escape becomes a
\* newline.
ReplaceEscapedNewlines(t) ==
    [i \in 1..Len(t) |-> IF t[i] = "\\n" THEN "\n" ELSE t[i]]

\* The content left as it is (the replace left out).
ReplaceNothing(t) == t

\* str.split(sep) from index i on: the pieces between the non-overlapping
\* occurrences of sep, found from the left.
RECURSIVE FirstOccurrence(_, _, _)
FirstOccurrence(t, sep, i) ==
    IF i + Len(sep) - 1 > Len(t) THEN 0
    ELSE IF LiteralAt(t, i, sep) THEN i
    ELSE FirstOccurrence(t, sep, i + 1)

RECURSIVE SplitOnFrom(_, _, _)
SplitOnFrom(t, sep, i) ==
    Only({ IF j = 0 THEN <<SubSeq(t, i, Len(t))>>
           ELSE <<SubSeq(t, i, j - 1)>> \o SplitOnFrom(t, sep, j + Len(sep)) :
           j \in {FirstOccurrence(t, sep, i)} })

SplitOn(t, sep) == SplitOnFrom(t, sep, 1)

\* str.strip()
RECURSIVE StripRight(_)
StripRight(t) ==
    IF t # <<>> /\ IsSpace(t[Len(t)]) THEN StripRight(SubSeq(t, 1, Len(t) - 1))
    ELSE t

Strip(t) == StripRight(SubSeq(t, SpacesEnd(t, 1), Len(t)))

Returned(session, model) ==
    [status |-> "returned", exc |-> "none", session |-> session, model |-> model]
Raised(exception) ==
    [status |-> "raised", exc |-> exception, session |-> PyNone, model |-> PyNone]

\* Steps 4 and 5 with the length test off by one: two pieces are enough, and a
\* missing third piece leaves the data model absent.
SectionsOfBlocksPartial(blocks) ==
    IF Len(blocks) < 2 THEN Returned(PyNone, PyNone)
    ELSE Returned(Strip(SplitOn(blocks[2], Fence)[1]),
                  IF Len(blocks) < 3 THEN PyNone
                  ELSE Strip(SplitOn(blocks[3], Fence)[1]))

\* Steps 4 and 5 with the two pieces taken in the other order.
SectionsOfBlocksSwapped(blocks) ==
    IF Len(blocks) < 3 THEN Returned(PyNone, PyNone)
    ELSE Returned(Strip(SplitOn(blocks[3], Fence)[1]),
                  Strip(SplitOn(blocks[2], Fence)[1]))

\* Lines 151-160 on markdown_blocks (blocks[1] is Python's markdown_blocks[0]).
SectionsOfBlocks(blocks) ==
    IF Len(blocks) < 3 THEN Returned(PyNone, PyNone)
    ELSE Returned(Strip(SplitOn(blocks[2], Fence)[1]),
                  Strip(SplitOn(blocks[3], Fence)[1]))

\* response_data['content'][0]['text']
ContentPath(response_data) ==
    LET content == GetItemKey(response_data, "content")
        first   == IF content.exc = "none" THEN GetItemIndex(content.val, 0)
                   ELSE content
    IN  IF first.exc = "none" THEN GetItemKey(first.val, "text") ELSE first

extract_guidance_sections(final_guidance) ==
    Only({
        IF parsed.exc \in {"ValueError", "SyntaxError"} THEN Returned(PyNone, PyNone)
        ELSE IF parsed.exc # "none" THEN Raised(parsed.exc)
        ELSE Only({
            IF found.exc \in {"KeyError", "IndexError"} THEN Returned(PyNone, PyNone)
            ELSE IF found.exc # "none" THEN Raised(found.exc)
            ELSE IF found.val.t # "str" THEN Raised("AttributeError")
            ELSE Only({ Only({ SectionsOfBlocks(blocks) :
                               blocks \in {SplitOn(content, FenceOpen)} }) :
                        content \in {ReplaceEscapedNewlines(found.val.v)} }) :
            found \in {ContentPath(parsed.val)} }) :
        parsed \in {literal_eval(final_guidance)} })

(***************************************************************************)
(* extract_guidance_sections applied to bounded inputs.                    *)
(***************************************************************************)
\* The agent's message with the markdown text at content[0].text.
MessageWith(text) ==
    PyDict(<< <<"role", PyStr(<<"assistant">>)>>,
              <<"content", PyList(<<PyDict(<< <<"text", PyStr(text)>> >>)>>)>> >>)

\* Texts that are no literal, and literals of every shape in which the path
\* content[0].text is missing or holds no string.
ShapeGuidances ==
    << MalformedText("SyntaxError"),
       MalformedText("ValueError"),
       MalformedText("TypeError"),
       LiteralText(PyInt),
       LiteralText(PyNoneValue),
       LiteralText(PyStr(<<"a">>)),
       LiteralText(PyList(<<>>)),
       LiteralText(PyList(<<PyInt>>)),
       LiteralText(PyDict(<<>>)),
       LiteralText(PyDict(<< <<"content", PyList(<<>>)>> >>)),
       LiteralText(PyDict(<< <<"content", PyDict(<<>>)>> >>)),
       LiteralText(PyDict(<< <<"content", PyStr(<<>>)>> >>)),
       LiteralText(PyDict(<< <<"content", PyStr(<<"a">>)>> >>)),
       LiteralText(PyDict(<< <<"content", PyNoneValue>> >>)),
       LiteralText(PyDict(<< <<"content", PyList(<<PyInt>>)>> >>)),
       LiteralText(PyDict(<< <<"content", PyList(<<PyDict(<<>>)>>)>> >>)),
       LiteralText(PyDict(<< <<"content",
                               PyList(<<PyDict(<< <<"text", PyInt>> >>)>>)>> >>)),
       LiteralText(PyDict(<< <<"content",
                               PyList(<<PyDict(<< <<"text", PyNoneValue>> >>)>>)>> >>)) >>

ContentSegments == { FenceOpen, Fence, <<"a">>, <<"b">>, <<" ">> }

RECURSIVE ConcatsUpTo(_, _)
ConcatsUpTo(segments, n) ==
    IF n = 0 THEN {<<>>}
    ELSE LET shorter == ConcatsUpTo(segments, n - 1)
         IN  shorter \cup { t \o g : t \in shorter, g \in segments }

\* Contents with escaped newlines: in the fence marker, inside a block, around
\* a block; with reasoning text around three blocks.
SampleContents ==
    { <<"<fence>", "markdown", "\\n", "a", "\\n", "<fence>", "\\n", "\\n",
        "<fence>", "markdown", "\\n", "b", "\\n", "<fence>">>,
      <<"<fence>", "markdown", "\\n", "a", "\\n", "b", "<fence>", " ",
        "<fence>", "markdown", "\n", " ", "b", "<fence>">>,
      <<"<fence>", "markdown", "\\n", "a", "<fence>">>,
      <<"a", " ", "<fence>", "markdown", "\n", "\n", "a", "\n", "<fence>", "\n", "b",
        "<fence>", "markdown", "\n", "b", " ", "a", "\n", "<fence>", " ", "b",
        "<fence>", "markdown", "\n", "a", "a", "<fence>">>,
      <<"<fence>", "markdown", " ", "\n", "a", "<fence>", "<fence>", "markdown", "\n", "b", "<fence>">> }

ContentTexts == ConcatsUpTo(ContentSegments, MaxSegments) \cup SampleContents

ExtractIdle ==
    /\ extPhase = "idle"
    /\ extGuidance = MalformedText("SyntaxError")
    /\ extOutcome = Returned(PyNone, PyNone)

ExtractInit ==
    /\ extPhase = "start"
    /\ \/ \E i \in 1..Len(ShapeGuidances) : extGuidance = ShapeGuidances[i]
       \/ \E text \in ContentTexts : extGuidance = LiteralText(MessageWith(text))
    /\ extOutcome = Returned(PyNone, PyNone)

ExtractGuidanceSections ==
    /\ extPhase = "start"
    /\ extOutcome' = extract_guidance_sections(extGuidance)
    /\ extPhase' = "done"
    /\ UNCHANGED extGuidance
    /\ UNCHANGED OtherThanExtract

ExtractNext == ExtractGuidanceSections

(***************************************************************************)
(* document_loader_mcp_server/server.py: the read_* tools                  *)
(***************************************************************************)
\* The file a path names: whether it exists, its suffix, and what the library
\* that opens it (pdfplumber, MarkItDown, fastmcp's Image) does with it when
\* it exists: it returns, or it raises an exception.
FileSuffixes == {".pdf", ".docx", ".png", ".JPG", ".unsupported", ""}
LibraryOutcomes == {"returns", "PermissionError", "ValueError"}
LoaderFiles ==
    [exists : BOOLEAN, suffix : FileSuffixes, library : LibraryOutcomes]

\* Opening a path that names no file raises FileNotFoundError.
LibraryOpen(file) == IF ~file.exists THEN "FileNotFoundError" ELSE file.library

LoaderReturned(text) ==
    [status |-> "returned", exc |-> "none", cause |-> "none", text |-> text]
LoaderRaised(exc, cause) ==
    [status |-> "raised", exc |-> exc, cause |-> cause, text |-> <<>>]
NoOutcome == [status |-> "none", exc |-> "none", cause |-> "none", text |-> <<>>]

\* The value of a successful call: the text of the document, the Image.
DocumentText == <<"<content>">>
ImageValue == <<"<Image>">>

\* f'Error: Could not find {file_type} at {file_path}'
CouldNotFind(file_type) == <<"Error: Could not find ", file_type, " at ", "<file_path>">>
\* f'Error reading {file_type} {file_path}: {str(e)}'
ErrorReading(file_type, e) ==
    <<"Error reading ", file_type, " ", "<file_path>", ": ", e>>

\* _convert_with_markitdown with its general clause only.
convert_with_markitdown_one_clause(file, file_type) ==
    IF LibraryOpen(file) = "returns" THEN LoaderReturned(DocumentText)
    ELSE LoaderReturned(ErrorReading(file_type, LibraryOpen(file)))

convert_with_markitdown(file, file_type) ==
    IF LibraryOpen(file) = "returns" THEN LoaderReturned(DocumentText)
    ELSE IF LibraryOpen(file) = "FileNotFoundError"
         THEN LoaderReturned(CouldNotFind(file_type))
    ELSE LoaderReturned(ErrorReading(file_type, LibraryOpen(file)))

read_pdf(file) ==
    IF LibraryOpen(file) = "returns" THEN LoaderReturned(DocumentText)
    ELSE IF LibraryOpen(file) = "FileNotFoundError"
         THEN LoaderReturned(CouldNotFind("PDF file"))
    ELSE LoaderReturned(ErrorReading("PDF file", LibraryOpen(file)))

read_docx(file) == convert_with_markitdown(file, "Word document")
read_xlsx(file) == convert_with_markitdown(file, "Excel file")
read_pptx(file) == convert_with_markitdown(file, "PowerPoint file")

\* str.lower() on a suffix.
LowerSuffix(suffix) == IF suffix = ".JPG" THEN ".jpg" ELSE suffix

supported_extensions ==
    {".png", ".jpg", ".jpeg", ".gif", ".bmp", ".tiff", ".tif", ".webp"}

\* read_image whose general clause lets the exception through.
read_image_unwrapped(file) ==
    IF ~file.exists THEN LoaderRaised("FileNotFoundError", "none")
    ELSE IF LowerSuffix(file.suffix) \notin supported_extensions
         THEN LoaderRaised("ValueError", "none")
    ELSE IF LibraryOpen(file) = "returns" THEN LoaderReturned(ImageValue)
    ELSE LoaderRaised(LibraryOpen(file), "none")

read_image(file) ==
    IF ~file.exists THEN LoaderRaised("FileNotFoundError", "none")
    ELSE IF LowerSuffix(file.suffix) \notin supported_extensions
         THEN LoaderRaised("RuntimeError", "ValueError")
    ELSE IF LibraryOpen(file) = "returns" THEN LoaderReturned(ImageValue)
    ELSE LoaderRaised("RuntimeError", LibraryOpen(file))

LoaderTools == {"read_pdf", "read_docx", "read_xlsx", "read_pptx", "read_image"}

DocumentIdle ==
    /\ docPhase = "idle"
    /\ docCall = [tool |-> "none",
                  file |-> [exists |-> FALSE, suffix |-> "", library |-> "returns"]]
    /\ docOutcome = NoOutcome

DocumentInit ==
    /\ docPhase = "start"
    /\ docCall \in [tool : LoaderTools, file : LoaderFiles]
    /\ docOutcome = NoOutcome

ReadPdf ==
    /\ docPhase = "start" /\ docCall.tool = "read_pdf"
    /\ docOutcome' = read_pdf(docCall.file)
    /\ docPhase' = "done"
    /\ UNCHANGED docCall
    /\ UNCHANGED OtherThanDocument

ReadDocx ==
    /\ docPhase = "start" /\ docCall.tool = "read_docx"
    /\ docOutcome' = read_docx(docCall.file)
    /\ docPhase' = "done"
    /\ UNCHANGED docCall
    /\ UNCHANGED OtherThanDocument

ReadXlsx ==
    /\ docPhase = "start" /\ docCall.tool = "read_xlsx"
    /\ docOutcome' = read_xlsx(docCall.file)
    /\ docPhase' = "done"
    /\ UNCHANGED docCall
    /\ UNCHANGED OtherThanDocument

ReadPptx ==
    /\ docPhase = "start" /\ docCall.tool = "read_pptx"
    /\ docOutcome' = read_pptx(docCall.file)
    /\ docPhase' = "done"
    /\ UNCHANGED docCall
    /\ UNCHANGED OtherThanDocument

ReadImage ==
    /\ docPhase = "start" /\ docCall.tool = "read_image"
    /\ docOutcome' = read_image(docCall.file)
    /\ docPhase' = "done"
    /\ UNCHANGED docCall
    /\ UNCHANGED OtherThanDocument

DocumentNext == ReadPdf \/ ReadDocx \/ ReadXlsx \/ ReadPptx \/ ReadImage

(***************************************************************************)
(* multiturn_evaluator.py: _to_text                                        *)
(***************************************************************************)
\* What getattr(x, attr) finds: no such attribute (AttributeError), a string,
\* a value that is no string (a dict, a list), or an attribute whose access
\* raises another exception (a property that fails).
AttributeMissing == [kind |-> "missing", text |-> <<>>]
AttributeString(text) == [kind |-> "str", text |-> text]
AttributeOther == [kind |-> "other", text |-> <<>>]
AttributeRaises == [kind |-> "raises", text |-> <<>>]

AttributeValues ==
    { AttributeMissing, AttributeOther, AttributeRaises,
      AttributeString(<<"hello">>), AttributeString(<<>>) }

\* What str(x) does: it returns a text or raises.
StrReturns(text) == [exc |-> "none", text |-> text]
StrRaises == [exc |-> "Exception", text |-> <<>>]

\* A response: a str with its value, or an object with what its attributes
\* message, text and content hold and what str() makes of it.
StringResponse(value) ==
    [type |-> "str", value |-> value,
     message |-> AttributeMissing, text |-> AttributeMissing,
     content |-> AttributeMissing, str |-> StrReturns(value)]

ObjectResponse(message, text, content, str) ==
    [type |-> "object", value |-> <<>>,
     message |-> message, text |-> text, content |-> content, str |-> str]

Responses ==
    { StringResponse(value) : value \in { <<>>, <<"plain">> } }
    \cup { ObjectResponse(message, text, content, str) :
              message \in AttributeValues, text \in AttributeValues,
              content \in AttributeValues,
              str \in { StrReturns(<<"<repr>">>), StrRaises } }

TextReturned(text) == [status |-> "returned", text |-> text]
TextRaised == [status |-> "raised", text |-> <<>>]
NoText == [status |-> "none", text |-> <<>>]

\* The attributes in the order content, text, message.
AttributeOrderReversed == <<"content", "text", "message">>

\* for attr in ("message", "text", "content")
AttributeOrder == <<"message", "text", "content">>

\* getattr(x, attr, None): the default stands for a missing attribute only.
getattr(x, attr) == x[attr]

\* The loop of lines 94-97 from the i-th attribute on, then lines 100-105.
RECURSIVE to_text_from(_, _)
to_text_from(x, i) ==
    IF i > Len(AttributeOrder)
    THEN IF x.str.exc = "none" THEN TextReturned(x.str.text)
         ELSE TextReturned(<<>>)
    ELSE Only({ IF v.kind = "raises" THEN TextRaised
                ELSE IF v.kind = "str" THEN TextReturned(v.text)
                ELSE to_text_from(x, i + 1) :
                v \in {getattr(x, AttributeOrder[i])} })

\* _to_text(x)
to_text(x) ==
    IF x.type = "str" THEN TextReturned(x.value) ELSE to_text_from(x, 1)

TextIdle ==
    /\ txtPhase = "idle"
    /\ txtResponse = StringResponse(<<>>)
    /\ txtOutcome = NoText

TextInit ==
    /\ txtPhase = "start"
    /\ txtResponse \in Responses
    /\ txtOutcome = NoText

ToText ==
    /\ txtPhase = "start"
    /\ txtOutcome' = to_text(txtResponse)
    /\ txtPhase' = "done"
    /\ UNCHANGED txtResponse
    /\ UNCHANGED OtherThanText

TextNext == ToText

(***************************************************************************)
(* multiturn_evaluator.py: the evaluation run (evaluate_scenarios,         *)
(* evaluate_with_conversation, simulate_conversation).                     *)
(***************************************************************************)
\* Turns numbered from 0.
ConversationTurnFromZero(role, turn_number) ==
    [role |-> role, turn_number |-> turn_number - 1]

\* The record keeps the role and the turn number of a turn; the content and
\* the timestamp are left out.
ConversationTurn(role, turn_number) == [role |-> role, turn_number |-> turn_number]

\* An error text that would read as an agent answer with two fenced blocks.
ErrorGuidanceAnswer ==
    LiteralText(MessageWith(FenceOpen \o <<"a", "<fence>">> \o FenceOpen \o <<"b", "<fence>">>))

\* f"Error during conversation: {str(e)}": a text that is no Python literal.
ErrorGuidance == MalformedText("SyntaxError")

\* What the agent's second answer, turned to text, can denote.
RunContents == ConcatsUpTo(ContentSegments, MaxRunSegments) \cup SampleContents

\* What a DSPy evaluator can return in its five score fields.
EngineScoreTexts == { <<>>, <<"8", ".", "5">>, <<"9", "5">> }

EngineOutputs(dimensions) ==
    { [d \in dimensions |-> text] : text \in EngineScoreTexts }
    \cup { [d \in dimensions |->
              IF d = CHOOSE x \in dimensions : TRUE THEN <<"4">> ELSE <<"9">>] }

IsNone(evaluation) == evaluation.quality_level = "none"

\* dynamodb_modeling_session and dynamodb_data_model, emptiness alone tested.
GuidanceAvailableNotEmpty(session, model) == session # <<>> /\ model # <<>>

\* if dynamodb_modeling_session and dynamodb_data_model
GuidanceAvailable(session, model) == Truthy(session) /\ Truthy(model)

\* text or ""
OrEmpty(text) == IF Truthy(text) THEN text ELSE <<>>

\* The ComprehensiveEvaluationResult; ok is FALSE for the None that
\* evaluate_with_conversation returns from its except clause.
NoComprehensiveResult ==
    [ok |-> FALSE, modeling_session |-> <<>>, data_model |-> <<>>,
     conversation |-> <<>>,
     session_evaluation |-> NoResult, model_evaluation |-> NoResult,
     session_quality_level |-> "unknown", model_quality_level |-> "unknown"]

ComprehensiveEvaluationResult(session, model, conversation, session_eval, model_eval) ==
    [ok |-> TRUE,
     modeling_session |-> OrEmpty(session),
     data_model |-> OrEmpty(model),
     conversation |-> conversation,
     session_evaluation |-> session_eval,
     model_evaluation |-> model_eval,
     session_quality_level |->
         IF IsNone(session_eval) THEN "unknown" ELSE session_eval.quality_level,
     model_quality_level |->
         IF IsNone(model_eval) THEN "unknown" ELSE model_eval.quality_level]

\* The dictionary of evaluate_scenarios; the error dictionary has the keys
\* status, message and timestamp only (has_sections is FALSE).
NoReport ==
    [status |-> "none", has_sections |-> FALSE,
     conversation |-> <<>>, modeling_session |-> <<>>, data_model |-> <<>>,
     session_evaluation |-> NoResult, model_evaluation |-> NoResult,
     session_quality_level |-> "unknown", model_quality_level |-> "unknown"]

ErrorReport == [NoReport EXCEPT !.status = "error"]

SuccessReport(result) ==
    [status |-> "success", has_sections |-> TRUE,
     conversation |-> result.conversation,
     modeling_session |-> result.modeling_session,
     data_model |-> result.data_model,
     session_evaluation |-> result.session_evaluation,
     model_evaluation |-> result.model_evaluation,
     session_quality_level |-> result.session_quality_level,
     model_quality_level |-> result.model_quality_level]

\* The value evaluate_with_conversation returns from its except clause, with
\* what was obtained before the exception kept.
ExceptionResultPartial ==
    ComprehensiveEvaluationResult(runSections.session, runSections.model,
        runConversation, runSessionEvaluation, runModelEvaluation)

\* except Exception: return None
ExceptionResult == NoComprehensiveResult

\* run_evaluation without its try/except: the exception reaches the caller.
RunEvaluationErrorRaised == [NoReport EXCEPT !.status = "raised"]

\* run_evaluation's dictionary from its except clause: status error with the
\* message, the model and the scenario.
RunEvaluationError == ErrorReport

\* run_evaluation's dictionary when no AWS credentials are found.
SkippedReport == [NoReport EXCEPT !.status = "skipped"]

(***************************************************************************)
(* test_dspy_evals.py: the environment and run_evaluation.                 *)
(***************************************************************************)
\* An environment variable that is not set.
Unset == "<unset>"

Environments ==
    [AWS_PROFILE : {Unset, "", "Bedrock", "p"},
     AWS_ACCESS_KEY_ID : {Unset, "k"},
     AWS_SECRET_ACCESS_KEY : {Unset, "s"}]

\* not os.environ.get(name)
NotSet(value) == value = Unset \/ value = ""

\* Importing test_dspy_evals: AWS_PROFILE defaults to "Bedrock".
ImportDefaults(env) ==
    IF NotSet(env.AWS_PROFILE) THEN [env EXCEPT !.AWS_PROFILE = "Bedrock"] ELSE env

\* os.getenv(name) is not None, for the key pair or for the profile alone.
aws_available_keys_only(env) ==
    env.AWS_ACCESS_KEY_ID # Unset /\ env.AWS_SECRET_ACCESS_KEY # Unset

aws_available(env) ==
    \/ env.AWS_ACCESS_KEY_ID # Unset /\ env.AWS_SECRET_ACCESS_KEY # Unset
    \/ env.AWS_PROFILE # Unset

\* What EnhancedMultiTurnEvaluator.__init__ leaves behind: it swallows every
\* exception, so conversation_handler and dspy_engine may be missing.
NoEvaluator == [conversation_handler |-> FALSE, dspy_engine |-> FALSE]

Evaluators ==
    { [conversation_handler |-> FALSE, dspy_engine |-> FALSE],
      [conversation_handler |-> TRUE, dspy_engine |-> FALSE],
      [conversation_handler |-> TRUE, dspy_engine |-> TRUE] }

(***************************************************************************)
(* dspy_evaluators.py: the expert knowledge of the engine.                 *)
(***************************************************************************)
\* The architect prompt file: whether the primary and the fallback path
\* exist, whether reading succeeds, and the text read.
KnowledgeFiles ==
    [primary : BOOLEAN, fallback : BOOLEAN, readable : BOOLEAN,
     content : { <<>>, <<"<architect prompt>">> }]

\* f"Error loading DynamoDB expert knowledge: {str(e)}. Using minimal context
\* for evaluation."
FallbackMessage ==
    <<"Error loading DynamoDB expert knowledge: ", "<e>",
      ". Using minimal context for evaluation.">>

\* _load_expert_knowledge without its try/except: the failure propagates.
load_expert_knowledge_unguarded(cache, file) ==
    IF cache # PyNone THEN [exc |-> "none", cache |-> cache]
    ELSE IF ~file.primary /\ ~file.fallback
         THEN [exc |-> "FileNotFoundError", cache |-> cache]
    ELSE IF ~file.readable THEN [exc |-> "OSError", cache |-> cache]
    ELSE [exc |-> "none", cache |-> file.content]

\* _load_expert_knowledge: the cache after the call, which is what it returns.
load_expert_knowledge(cache, file) ==
    IF cache # PyNone THEN [exc |-> "none", cache |-> cache]
    ELSE IF ~file.primary /\ ~file.fallback
         THEN [exc |-> "none", cache |-> FallbackMessage]
    ELSE IF ~file.readable THEN [exc |-> "none", cache |-> FallbackMessage]
    ELSE [exc |-> "none", cache |-> file.content]

\* One call of a DSPy evaluator, as the engine method makes it.
ReasonerCall(evaluator, content, expert_knowledge) ==
    [evaluator |-> evaluator, content |-> content,
     expert_knowledge |-> expert_knowledge]

\* The evaluator called again when its first call raised.
InvokeWithRetry(calls, call, raised) ==
    IF raised THEN calls \o <<call, call>> ELSE Append(calls, call)

\* The evaluator is called once, whether it returns or raises.
InvokeOnce(calls, call, raised) == Append(calls, call)

\* The section handed to evaluate_session, the two sections mixed up.
SessionContentSwapped(sections) == sections.model

\* evaluate_session(scenario, dynamodb_modeling_session)
SessionContent(sections) == sections.session

\* evaluate_guidance(scenario, dynamodb_data_model)
DesignContent(sections) == sections.model

EngineCall(method, content) == [method |-> method, content |-> content]

\* extract_guidance_sections has not been called yet.
NoSections == [status |-> "none", exc |-> "none", session |-> PyNone, model |-> PyNone]

RunIdle ==
    /\ runPc = "idle"
    /\ runEnv = ImportDefaults([AWS_PROFILE |-> Unset, AWS_ACCESS_KEY_ID |-> Unset,
                                AWS_SECRET_ACCESS_KEY |-> Unset])
    /\ runEnvTouched = FALSE
    /\ runEvaluator = NoEvaluator
    /\ runConversation = <<>>
    /\ runAgentCalls = <<>>
    /\ runConversationRaised = FALSE
    /\ runGuidance = ErrorGuidance
    /\ runSections = NoSections
    /\ runKnowledgeCache = PyNone
    /\ runEngineCalls = <<>>
    /\ runReasonerCalls = <<>>
    /\ runSessionEvaluation = NoResult
    /\ runModelEvaluation = NoResult
    /\ runResult = NoComprehensiveResult
    /\ runReport = NoReport

\* test_dspy_evals is about to be imported, in any environment.
RunInit ==
    /\ runPc = "import"
    /\ runEnv \in Environments
    /\ runEnvTouched = FALSE
    /\ runEvaluator = NoEvaluator
    /\ runConversation = <<>>
    /\ runAgentCalls = <<>>
    /\ runConversationRaised = FALSE
    /\ runGuidance = ErrorGuidance
    /\ runSections = NoSections
    /\ runKnowledgeCache = PyNone
    /\ runEngineCalls = <<>>
    /\ runReasonerCalls = <<>>
    /\ runSessionEvaluation = NoResult
    /\ runModelEvaluation = NoResult
    /\ runResult = NoComprehensiveResult
    /\ runReport = NoReport

\* test_dspy_evals.py, lines 68-73: the module-level defaults.
ImportModule ==
    /\ runPc = "import"
    /\ runEnv' = ImportDefaults(runEnv)
    /\ runPc' = "imported"
    /\ UNCHANGED <<runEnvTouched, runEvaluator, runConversationVars, runSections,
                   runEngineVars, runResult, runReport>>
    /\ UNCHANGED OtherThanRun

\* run_evaluation, lines 147-161: env is the environment at the time of the
\* call, the one the import left or another one.
RunEvaluation ==
    /\ runPc = "imported"
    /\ \E env \in Environments :
          /\ runEnv' = env
          /\ runEnvTouched' = (env # runEnv)
          /\ IF aws_available(env)
             THEN runPc' = "construct" /\ UNCHANGED runReport
             ELSE runPc' = "reported" /\ runReport' = SkippedReport
    /\ UNCHANGED <<runEvaluator, runConversationVars, runSections,
                   runEngineVars, runResult>>
    /\ UNCHANGED OtherThanRun

\* run_evaluation, line 169, and EnhancedMultiTurnEvaluator.__init__.
ConstructEvaluator ==
    /\ runPc = "construct"
    /\ runEvaluator' \in Evaluators
    /\ runPc' = "scenario"
    /\ UNCHANGED <<runEnv, runEnvTouched, runConversationVars, runSections,
                   runEngineVars, runResult, runReport>>
    /\ UNCHANGED OtherThanRun

\* run_evaluation, lines 172-176 and 185-200: the scenario is found and
\* evaluate_scenarios is called, or the lookup raises and run_evaluation
\* returns its own error dictionary.
LoadScenario ==
    /\ runPc = "scenario"
    /\ \/ runPc' = "setup" /\ UNCHANGED runReport
       \/ runPc' = "reported" /\ runReport' = RunEvaluationError
    /\ UNCHANGED <<runEnvVars, runConversationVars, runSections,
                   runEngineVars, runResult>>
    /\ UNCHANGED OtherThanRun

\* evaluate_with_conversation, line 447, and simulate_conversation, lines
\* 311-326: the MCP client, its tools, the agent.  Without a
\* conversation_handler line 447 raises AttributeError.
SimulateConversationSetup ==
    /\ runPc = "setup"
    /\ IF ~runEvaluator.conversation_handler
       THEN /\ runPc' = "returned"
            /\ runResult' = ExceptionResult
            /\ UNCHANGED <<runGuidance, runConversationRaised>>
       ELSE /\ \/ /\ runPc' = "turn1"
                  /\ UNCHANGED <<runGuidance, runConversationRaised>>
               \/ /\ runPc' = "conversed"
                  /\ runGuidance' = ErrorGuidance
                  /\ runConversationRaised' = TRUE
            /\ UNCHANGED runResult
    /\ UNCHANGED <<runEnvVars, runConversation, runAgentCalls, runSections,
                   runEngineVars, runReport>>
    /\ UNCHANGED OtherThanRun

\* simulate_conversation, lines 329-346: the first exchange.
SimulateConversationTurn1 ==
    /\ runPc = "turn1"
    /\ \/ /\ runAgentCalls' = Append(runAgentCalls, "returned")
          /\ runConversation' = runConversation
                \o <<ConversationTurn("user", 1), ConversationTurn("assistant", 2)>>
          /\ runPc' = "turn2"
          /\ UNCHANGED <<runGuidance, runConversationRaised>>
       \/ /\ runAgentCalls' = Append(runAgentCalls, "raised")
          /\ runConversation' = Append(runConversation, ConversationTurn("user", 1))
          /\ runPc' = "conversed"
          /\ runGuidance' = ErrorGuidance
          /\ runConversationRaised' = TRUE
    /\ UNCHANGED <<runEnvVars, runSections, runEngineVars, runResult, runReport>>
    /\ UNCHANGED OtherThanRun

\* simulate_conversation, lines 349-373: the second exchange.  Building the
\* message can raise before the user turn is recorded, the agent after it, and
\* leaving the "with" block of the MCP client after the fourth turn.
SimulateConversationTurn2 ==
    /\ runPc = "turn2"
    /\ \/ /\ \/ \E i \in 1..Len(ShapeGuidances) : runGuidance' = ShapeGuidances[i]
             \/ \E text \in RunContents : runGuidance' = LiteralText(MessageWith(text))
          /\ runConversation' = runConversation
                \o <<ConversationTurn("user", 3), ConversationTurn("assistant", 4)>>
          /\ runAgentCalls' = Append(runAgentCalls, "returned")
          /\ UNCHANGED runConversationRaised
       \/ /\ runGuidance' = ErrorGuidance
          /\ runConversationRaised' = TRUE
          /\ UNCHANGED <<runConversation, runAgentCalls>>
       \/ /\ runGuidance' = ErrorGuidance
          /\ runConversationRaised' = TRUE
          /\ runConversation' = Append(runConversation, ConversationTurn("user", 3))
          /\ runAgentCalls' = Append(runAgentCalls, "raised")
       \/ /\ runGuidance' = ErrorGuidance
          /\ runConversationRaised' = TRUE
          /\ runConversation' = runConversation
                \o <<ConversationTurn("user", 3), ConversationTurn("assistant", 4)>>
          /\ runAgentCalls' = Append(runAgentCalls, "returned")
    /\ runPc' = "conversed"
    /\ UNCHANGED <<runEnvVars, runSections, runEngineVars, runResult, runReport>>
    /\ UNCHANGED OtherThanRun

\* evaluate_with_conversation, line 449; an exception of the extraction ends
\* in the except clause of lines 497-501, which returns None.
ExtractSections ==
    /\ runPc = "conversed"
    /\ runSections' = extract_guidance_sections(runGuidance)
    /\ IF runSections'.status = "raised"
       THEN runPc' = "returned" /\ runResult' = ExceptionResult
       ELSE runPc' = "extracted" /\ UNCHANGED runResult
    /\ UNCHANGED <<runEnvVars, runConversationVars, runEngineVars, runReport>>
    /\ UNCHANGED OtherThanRun

\* evaluate_with_conversation, lines 458-466, and evaluate_session: the
\* session is evaluated first.  The engine loads its expert knowledge, calls
\* the session evaluator and aggregates what it returned; the evaluator or the
\* aggregation may raise.  Without a dspy_engine line 463 raises AttributeError.
EvaluateSession ==
    /\ runPc = "extracted"
    /\ GuidanceAvailable(runSections.session, runSections.model)
    /\ IF ~runEvaluator.dspy_engine
       THEN /\ runPc' = "returned"
            /\ runResult' = ExceptionResult
            /\ UNCHANGED runEngineVars
       ELSE \E file \in KnowledgeFiles :
            LET loaded == load_expert_knowledge(runKnowledgeCache, file)
                call   == ReasonerCall("session_evaluator",
                                       SessionContent(runSections), loaded.cache)
            IN  /\ runEngineCalls' = Append(runEngineCalls,
                       EngineCall("evaluate_session", SessionContent(runSections)))
                /\ runKnowledgeCache' = loaded.cache
                /\ UNCHANGED runModelEvaluation
                /\ IF loaded.exc # "none"
                   THEN /\ runPc' = "returned"
                        /\ runResult' = ExceptionResult
                        /\ UNCHANGED <<runReasonerCalls, runSessionEvaluation>>
                   ELSE \/ \E session_result \in EngineOutputs(SessionDimension) :
                              /\ runReasonerCalls' =
                                     InvokeOnce(runReasonerCalls, call, FALSE)
                              /\ runSessionEvaluation' =
                                     aggregate_session_evaluation_results(session_result)
                              /\ runPc' = "session_evaluated"
                              /\ UNCHANGED runResult
                        \/ /\ runReasonerCalls' =
                                  InvokeOnce(runReasonerCalls, call, TRUE)
                           /\ runPc' = "returned"
                           /\ runResult' = ExceptionResult
                           /\ UNCHANGED runSessionEvaluation
                        \/ /\ runReasonerCalls' =
                                  InvokeOnce(runReasonerCalls, call, FALSE)
                           /\ runPc' = "returned"
                           /\ runResult' = ExceptionResult
                           /\ UNCHANGED runSessionEvaluation
    /\ UNCHANGED <<runEnvVars, runConversationVars, runSections, runReport>>
    /\ UNCHANGED OtherThanRun

\* evaluate_with_conversation, lines 468-475, and evaluate_guidance: then the
\* data model.
EvaluateGuidance ==
    /\ runPc = "session_evaluated"
    /\ \E file \in KnowledgeFiles :
       LET loaded == load_expert_knowledge(runKnowledgeCache, file)
           call   == ReasonerCall("guidance_evaluator",
                                  DesignContent(runSections), loaded.cache)
       IN  /\ runEngineCalls' = Append(runEngineCalls,
                  EngineCall("evaluate_guidance", DesignContent(runSections)))
           /\ runKnowledgeCache' = loaded.cache
           /\ UNCHANGED runSessionEvaluation
           /\ IF loaded.exc # "none"
              THEN /\ runPc' = "returned"
                   /\ runResult' = ExceptionResult
                   /\ UNCHANGED <<runReasonerCalls, runModelEvaluation>>
              ELSE \/ \E guidance_result \in EngineOutputs(EvaluationDimension) :
                         /\ runReasonerCalls' =
                                InvokeOnce(runReasonerCalls, call, FALSE)
                         /\ runModelEvaluation' =
                                aggregate_evaluation_results(guidance_result)
                         /\ runPc' = "model_evaluated"
                         /\ UNCHANGED runResult
                   \/ /\ runReasonerCalls' =
                             InvokeOnce(runReasonerCalls, call, TRUE)
                      /\ runPc' = "returned"
                      /\ runResult' = ExceptionResult
                      /\ UNCHANGED runModelEvaluation
                   \/ /\ runReasonerCalls' =
                             InvokeOnce(runReasonerCalls, call, FALSE)
                      /\ runPc' = "returned"
                      /\ runResult' = ExceptionResult
                      /\ UNCHANGED runModelEvaluation
    /\ UNCHANGED <<runEnvVars, runConversationVars, runSections, runReport>>
    /\ UNCHANGED OtherThanRun

\* evaluate_with_conversation, lines 477-495.
\* The result built as soon as the session has been evaluated, without the
\* evaluation of the data model.
BuildResultEarly ==
    /\ \/ runPc \in {"session_evaluated", "model_evaluated"}
       \/ /\ runPc = "extracted"
          /\ ~GuidanceAvailable(runSections.session, runSections.model)
    /\ runResult' = ComprehensiveEvaluationResult(
                        runSections.session, runSections.model, runConversation,
                        runSessionEvaluation, runModelEvaluation)
    /\ runPc' = "returned"
    /\ UNCHANGED <<runEnvVars, runConversationVars, runSections, runEngineVars,
                   runReport>>
    /\ UNCHANGED OtherThanRun

BuildResult ==
    /\ \/ runPc = "model_evaluated"
       \/ /\ runPc = "extracted"
          /\ ~GuidanceAvailable(runSections.session, runSections.model)
    /\ runResult' = ComprehensiveEvaluationResult(
                        runSections.session, runSections.model, runConversation,
                        runSessionEvaluation, runModelEvaluation)
    /\ runPc' = "returned"
    /\ UNCHANGED <<runEnvVars, runConversationVars, runSections, runEngineVars,
                   runReport>>
    /\ UNCHANGED OtherThanRun

\* evaluate_scenarios, lines 513-547.
EvaluateScenariosReport ==
    /\ runPc = "returned"
    /\ runReport' = IF ~runResult.ok THEN ErrorReport ELSE SuccessReport(runResult)
    /\ runPc' = "reported"
    /\ UNCHANGED <<runEnvVars, runConversationVars, runSections, runEngineVars,
                   runResult>>
    /\ UNCHANGED OtherThanRun

RunNext ==
    \/ ImportModule
    \/ RunEvaluation
    \/ ConstructEvaluator
    \/ LoadScenario
    \/ SimulateConversationSetup
    \/ SimulateConversationTurn1
    \/ SimulateConversationTurn2
    \/ ExtractSections
    \/ EvaluateSession
    \/ EvaluateGuidance
    \/ BuildResult
    \/ EvaluateScenariosReport

(***************************************************************************)
(* multiturn_evaluator.py: the durations of evaluate_with_conversation and *)
(* the performance_metadata of evaluate_scenarios.  time.time() is a clock *)
(* of ticks; every phase takes some ticks, the extraction and the building *)
(* of the result included.                                                 *)
(***************************************************************************)
Ticks == 0..MaxTicks

\* session_eval_duration = 0.0 and model_eval_duration = 0.0 (lines 455-456),
\* before the conversation has been timed.
NoDurations == [conversation |-> 0, session |-> 0, model |-> 0]

NoMetadata ==
    [status |-> "none", conversation_duration |-> 0,
     session_evaluation_duration |-> 0, model_evaluation_duration |-> 0,
     total_duration |-> 0]

\* total_duration taken from the clock: time.time() - start_time.
TotalDurationElapsed(durations, elapsed) == elapsed

\* evaluate_scenarios, line 544: the sum of the three durations of the result.
TotalDuration(durations, elapsed) ==
    durations.conversation + durations.session + durations.model

\* evaluate_scenarios, lines 540-545.
PerformanceMetadata(durations, elapsed) ==
    [status |-> "success",
     conversation_duration |-> durations.conversation,
     session_evaluation_duration |-> durations.session,
     model_evaluation_duration |-> durations.model,
     total_duration |-> TotalDuration(durations, elapsed)]

TimingIdle ==
    /\ timPc = "start"
    /\ timClock = 0
    /\ timDurations = NoDurations
    /\ timEvaluated = FALSE
    /\ timTotal = 0
    /\ timReport = NoMetadata

\* Line 440: start_time = time.time().
TimingInit == TimingIdle

\* Lines 444-448: the conversation is timed; a missing conversation_handler
\* raises.
TimeConversation ==
    /\ timPc = "start"
    /\ \E d \in Ticks :
          /\ timClock' = timClock + d
          /\ \/ /\ timDurations' = [timDurations EXCEPT !.conversation = d]
                /\ timPc' = "conversed"
             \/ /\ timPc' = "failed"
                /\ UNCHANGED timDurations
    /\ UNCHANGED <<timEvaluated, timTotal, timReport>>
    /\ UNCHANGED OtherThanTiming

\* Lines 449-458: the extraction, not timed, and the test of the sections.
TimeExtraction ==
    /\ timPc = "conversed"
    /\ \E d \in Ticks :
          /\ timClock' = timClock + d
          /\ \/ timPc' = "evaluate"
             \/ timPc' = "build"
             \/ timPc' = "failed"
    /\ UNCHANGED <<timDurations, timEvaluated, timTotal, timReport>>
    /\ UNCHANGED OtherThanTiming

\* Lines 460-466: the session evaluation is timed, or raises.
TimeSessionEvaluation ==
    /\ timPc = "evaluate"
    /\ \E d \in Ticks :
          /\ timClock' = timClock + d
          /\ \/ /\ timDurations' = [timDurations EXCEPT !.session = d]
                /\ timPc' = "session_evaluated"
             \/ /\ timPc' = "failed"
                /\ UNCHANGED timDurations
    /\ UNCHANGED <<timEvaluated, timTotal, timReport>>
    /\ UNCHANGED OtherThanTiming

\* Lines 468-475: the model evaluation is timed, or raises.
TimeModelEvaluation ==
    /\ timPc = "session_evaluated"
    /\ \E d \in Ticks :
          /\ timClock' = timClock + d
          /\ \/ /\ timDurations' = [timDurations EXCEPT !.model = d]
                /\ timEvaluated' = TRUE
                /\ timPc' = "build"
             \/ /\ timPc' = "failed"
                /\ UNCHANGED <<timDurations, timEvaluated>>
    /\ UNCHANGED <<timTotal, timReport>>
    /\ UNCHANGED OtherThanTiming

\* Lines 477-495: the result is built and the local total_duration is taken
\* from the clock.
TimeResult ==
    /\ timPc = "build"
    /\ \E d \in Ticks :
          /\ timClock' = timClock + d
          /\ timTotal' = timClock + d
    /\ timPc' = "returned"
    /\ UNCHANGED <<timDurations, timEvaluated, timReport>>
    /\ UNCHANGED OtherThanTiming

\* evaluate_scenarios, lines 515-547: the error dictionary for None, else the
\* report with its performance_metadata.
TimeReport ==
    /\ timPc \in {"returned", "failed"}
    /\ timReport' = IF timPc = "failed"
                    THEN [NoMetadata EXCEPT !.status = "error"]
                    ELSE PerformanceMetadata(timDurations, timTotal)
    /\ timPc' = "reported"
    /\ UNCHANGED <<timClock, timDurations, timEvaluated, timTotal>>
    /\ UNCHANGED OtherThanTiming

TimingNext ==
    \/ TimeConversation
    \/ TimeExtraction
    \/ TimeSessionEvaluation
    \/ TimeModelEvaluation
    \/ TimeResult
    \/ TimeReport

(***************************************************************************)
(* dspy_evaluators.py: one DSPyEvaluationEngine serving several calls.     *)
(* Each caller goes through evaluate_session or evaluate_guidance one      *)
(* statement at a time; the methods take no lock.                          *)
(***************************************************************************)
EngineCallers == {1, 2}

EngineMethods == {"evaluate_session", "evaluate_guidance"}

\* The file is opened whatever the cache holds.
CacheMissingAlways(cache) == TRUE

\* if self._expert_knowledge_cache is None
CacheMissing(cache) == cache = PyNone

\* What the try block leaves to be cached for a file: the text read, or the
\* fallback message of the except clause.
LoadedText(file) == load_expert_knowledge(PyNone, file).cache

EngineIdle ==
    /\ engCache = PyNone
    /\ engPc = [c \in EngineCallers |-> "idle"]
    /\ engMethod = [c \in EngineCallers |-> "none"]
    /\ engLocal = [c \in EngineCallers |-> PyNone]
    /\ engFileReads = 0
    /\ engCacheWrites = <<>>
    /\ engPassed = <<>>

\* __init__: the cache starts as None and nothing has been called.
EngineInit == EngineIdle

EngineStarted ==
    Len(engPassed) + Cardinality({ c \in EngineCallers : engPc[c] # "idle" })

\* A caller enters evaluate_session or evaluate_guidance.
EnterMethod(c, method) ==
    /\ engPc[c] = "idle"
    /\ EngineStarted < MaxEngineCalls
    /\ engPc' = [engPc EXCEPT ![c] = "check"]
    /\ engMethod' = [engMethod EXCEPT ![c] = method]
    /\ UNCHANGED <<engCache, engLocal, engFileReads, engCacheWrites, engPassed>>
    /\ UNCHANGED OtherThanEngine

\* Calls made one after the other: a call starts when no other is under way.
EngineCallAlone ==
    \E c \in EngineCallers, method \in EngineMethods :
        /\ \A d \in EngineCallers : engPc[d] = "idle"
        /\ EnterMethod(c, method)

\* Calls made from concurrent threads: a call starts whatever the others do.
EngineCallConcurrently ==
    \E c \in EngineCallers, method \in EngineMethods : EnterMethod(c, method)

\* _load_expert_knowledge, line 320: the test of the cache.
EngineCheckCache ==
    \E c \in EngineCallers :
        /\ engPc[c] = "check"
        /\ engPc' = [engPc EXCEPT ![c] =
                         IF CacheMissing(engCache) THEN "read" ELSE "return"]
        /\ UNCHANGED <<engCache, engMethod, engLocal, engFileReads,
                       engCacheWrites, engPassed>>
        /\ UNCHANGED OtherThanEngine

\* _load_expert_knowledge, lines 321-337: the paths are probed and the file is
\* read, or the except clause builds the fallback message.
EngineReadFile ==
    \E c \in EngineCallers, file \in KnowledgeFiles :
        /\ engPc[c] = "read"
        /\ engLocal' = [engLocal EXCEPT ![c] = LoadedText(file)]
        /\ engFileReads' = engFileReads + 1
        /\ engPc' = [engPc EXCEPT ![c] = "write"]
        /\ UNCHANGED <<engCache, engMethod, engCacheWrites, engPassed>>
        /\ UNCHANGED OtherThanEngine

\* _load_expert_knowledge, lines 333 and 338: the assignment to the cache.
EngineWriteCache ==
    \E c \in EngineCallers :
        /\ engPc[c] = "write"
        /\ engCache' = engLocal[c]
        /\ engCacheWrites' = Append(engCacheWrites, engLocal[c])
        /\ engPc' = [engPc EXCEPT ![c] = "return"]
        /\ UNCHANGED <<engMethod, engLocal, engFileReads, engPassed>>
        /\ UNCHANGED OtherThanEngine

\* _load_expert_knowledge, line 340: return self._expert_knowledge_cache.
EngineReturnCache ==
    \E c \in EngineCallers :
        /\ engPc[c] = "return"
        /\ engLocal' = [engLocal EXCEPT ![c] = engCache]
        /\ engPc' = [engPc EXCEPT ![c] = "evaluate"]
        /\ UNCHANGED <<engCache, engMethod, engFileReads, engCacheWrites, engPassed>>
        /\ UNCHANGED OtherThanEngine

\* evaluate_session / evaluate_guidance: the evaluator is called with the
\* expert knowledge _load_expert_knowledge returned, and the method ends.
EngineCallEvaluator ==
    \E c \in EngineCallers :
        /\ engPc[c] = "evaluate"
        /\ engPassed' = Append(engPassed,
               [caller |-> c, method |-> engMethod[c],
                expert_knowledge |-> engLocal[c]])
        /\ engPc' = [engPc EXCEPT ![c] = "idle"]
        /\ engMethod' = [engMethod EXCEPT ![c] = "none"]
        /\ engLocal' = [engLocal EXCEPT ![c] = PyNone]
        /\ UNCHANGED <<engCache, engFileReads, engCacheWrites>>
        /\ UNCHANGED OtherThanEngine

EngineSteps ==
    \/ EngineCheckCache
    \/ EngineReadFile
    \/ EngineWriteCache
    \/ EngineReturnCache
    \/ EngineCallEvaluator

EngineNext == EngineCallAlone \/ EngineSteps

EngineThreadsNext == EngineCallConcurrently \/ EngineSteps

(***************************************************************************)
(* Specifications: one per component, the other components idle.           *)
(***************************************************************************)
\* Every component but the one named has not been started.
OthersIdle(component) ==
    /\ component = "config" \/ ConfigIdle
    /\ component = "recovery" \/ RecoveryIdle
    /\ component = "aggregate" \/ AggregateIdle
    /\ component = "extract" \/ ExtractIdle
    /\ component = "document" \/ DocumentIdle
    /\ component = "text" \/ TextIdle
    /\ component = "run" \/ RunIdle
    /\ component = "engine" \/ EngineIdle
    /\ component = "timing" \/ TimingIdle

InitConfig == OthersIdle("config") /\ ConfigInit
SpecConfig == InitConfig /\ [][ConfigNext]_vars

InitRecovery == OthersIdle("recovery") /\ RecoveryInit
SpecRecovery == InitRecovery /\ [][RecoveryNext]_vars

InitAggregate == OthersIdle("aggregate") /\ AggregateInit
SpecAggregate == InitAggregate /\ [][AggregateNext]_vars

InitExtract == OthersIdle("extract") /\ ExtractInit
SpecExtract == InitExtract /\ [][ExtractNext]_vars

InitTiming == OthersIdle("timing") /\ TimingInit
SpecTiming == InitTiming /\ [][TimingNext]_vars

InitEngine == OthersIdle("engine") /\ EngineInit
\* The calls on one engine made one after the other.
SpecEngine == InitEngine /\ [][EngineNext]_vars
\* The calls on one engine made from concurrent threads.
SpecEngineThreads == InitEngine /\ [][EngineThreadsNext]_vars

InitDocument == OthersIdle("document") /\ DocumentInit
SpecDocument == InitDocument /\ [][DocumentNext]_vars

InitText == OthersIdle("text") /\ TextInit
SpecText == InitText /\ [][TextNext]_vars

InitRun == OthersIdle("run") /\ RunInit
SpecRun == InitRun /\ [][RunNext]_vars

\* The run is sequential code: it takes its next step whenever the external
\* call it waits for (agent, file system, evaluator) returns or raises.
SpecRunFair == SpecRun /\ WF_vars(RunNext)

(***************************************************************************)
(* Claims about EvaluationConfig, checked under SpecConfig.                *)
(***************************************************************************)
RECURSIVE SumMantissa(_, _)
SumMantissa(f, keys) ==
    IF keys = {} THEN 0
    ELSE LET k == CHOOSE x \in keys : TRUE
         IN  f[k].m + SumMantissa(f, keys \ {k})

Abs(n) == IF n < 0 THEN -n ELSE n

\* The sum of the five scores in hundredths (every score of ScoreGrid has scale 2).
TotalHundredths == SumMantissa(cfgScores, DOMAIN cfgScores)

\* C1: for every mapping of the five dimensions of a family to scores in
\* [1,10], calculate_datamodel_eval_score and calculate_session_eval_score
\* return a multiple of 0.01 that is within 0.005 of the arithmetic mean of the
\* five scores (the mean rounded to 2 decimals), and that value lies in [1,10].
C1_MeanRoundedInRange ==
    cfgFamily \in {"datamodel", "session"} =>
        /\ Cardinality(DOMAIN cfgScores) = 5
        /\ cfgOverall.s = 2
        /\ 2 * Abs(5 * cfgOverall.m - TotalHundredths) <= 5
        /\ 100 <= cfgOverall.m /\ cfgOverall.m <= 1000

\* A session score whose mean is not a multiple of 0.01 and was rounded up.
C1_Witness ==
    /\ cfgFamily = "session"
    /\ cfgPhase = "scored"
    /\ TotalHundredths % 5 \in {3, 4}
    /\ 5 * cfgOverall.m > TotalHundredths

\* C2: get_quality_level applies the thresholds highest first with the lower
\* bound of each band inclusive: a score s is excellent iff s >= 8.5, good iff
\* 7.0 <= s < 8.5, acceptable iff 5.5 <= s < 7.0, needs_improvement iff
\* 4.0 <= s < 5.5 and poor iff s < 4.0; so 8.5 is excellent, 8.49 good, 5.5
\* acceptable and 3.99 poor, and every score has exactly one of the five levels.
C2_QualityBands ==
    cfgPhase = "classified" =>
        LET p == cfgOverall.m
        IN  /\ cfgOverall.s = 2
            /\ cfgLevel \in QualityLevels
            /\ (cfgLevel = "excellent") <=> (p >= 850)
            /\ (cfgLevel = "good") <=> (700 <= p /\ p < 850)
            /\ (cfgLevel = "acceptable") <=> (550 <= p /\ p < 700)
            /\ (cfgLevel = "needs_improvement") <=> (400 <= p /\ p < 550)
            /\ (cfgLevel = "poor") <=> (p < 400)
            /\ (p = 850 => cfgLevel = "excellent")
            /\ (p = 849 => cfgLevel = "good")
            /\ (p = 550 => cfgLevel = "acceptable")
            /\ (p = 399 => cfgLevel = "poor")

\* get_quality_level(8.49) has returned "good".
C2_Witness ==
    /\ cfgPhase = "classified"
    /\ cfgFamily = "probe"
    /\ cfgOverall = Dec(849, 2)
    /\ cfgLevel = "good"

(***************************************************************************)
(* Claims about extract_numeric_score, checked under SpecRecovery.         *)
(***************************************************************************)
AllDigits(t) == t # <<>> /\ \A i \in 1..Len(t) : IsDigit(t[i])

\* The score, in tenths, that a text made of digits only must give: the number n
\* itself when n <= 10 and n / 10 otherwise, then brought into [1, 10].
ExpectedTenths(n) ==
    IF n > 10 THEN (IF n > 100 THEN 100 ELSE n)
    ELSE (IF 10 * n < 10 THEN 10 ELSE 10 * n)

\* C3: for every input text (empty, absent, numeric or not)
\* extract_numeric_score returns a value in [1.0, 10.0]; a matched number
\* greater than 10 is divided by 10 once and the result is then clamped to
\* [1.0, 10.0] (stated for the texts that are one whole number).
C3_RecoveredScoreInRange ==
    recPhase = "done" =>
        /\ recScore.m >= Pow10(recScore.s)
        /\ recScore.m <= 10 * Pow10(recScore.s)
        /\ AllDigits(recText) =>
              10 * recScore.m = ExpectedTenths(DigitsValue(recText)) * Pow10(recScore.s)

\* "999": 99.9 after the one division by 10, clamped to 10.0.
C3_Witness ==
    /\ recPhase = "done"
    /\ recText = <<"9", "9", "9">>
    /\ DecEq(recScore, Dec(10, 0))

HasMatch(k, t) == \E i \in 1..Len(t) : MatchAt(k, t, i).ok

LeftmostMatch(k, t) ==
    MatchAt(k, t, CHOOSE i \in 1..Len(t) :
                      /\ MatchAt(k, t, i).ok
                      /\ \A j \in 1..(i - 1) : ~MatchAt(k, t, j).ok)

\* C4: extract_numeric_score tries the four numeric patterns in the fixed order
\* (score:/rating: prefix, N/10, N out of 10, bare decimal) and uses the
\* leftmost match of the first pattern that matches anywhere in the text; hence
\* "Score: 8.5/10" gives 8.5, "Rating: 7.2 out of 10" gives 7.2,
\* "Excellent work" gives 9.0, "" gives 7.0 and "95" gives 9.5.
C4_FirstPatternFirstMatch ==
    recPhase = "done" =>
        /\ (recText = TextScore85 => DecEq(recScore, Dec(85, 1)))
        /\ (recText = TextRating72 => DecEq(recScore, Dec(72, 1)))
        /\ (recText = TextExcellentWork => DecEq(recScore, Dec(90, 1)))
        /\ (recText = <<>> => DecEq(recScore, Dec(70, 1)))
        /\ (recText = TextNinetyFive => DecEq(recScore, Dec(95, 1)))
        /\ Truthy(recText) =>
              \A k \in 1..NumPatterns :
                  (/\ HasMatch(k, Lower(recText))
                   /\ \A j \in 1..(k - 1) : ~HasMatch(j, Lower(recText)))
                  => DecEq(recScore,
                           Normalize(FloatOfGroup(
                               LeftmostMatch(k, Lower(recText)).group)))

\* "1 9/10": the N/10 pattern's 9 is used, not the bare decimal 1 before it.
C4_Witness ==
    /\ recPhase = "done"
    /\ recText = <<"1", " ", "9", "/", "1", "0">>
    /\ DecEq(recScore, Dec(9, 0))

HasDigit(t) == \E i \in 1..Len(t) : IsDigit(t[i])

\* The number the patterns recover: the leftmost match of the first pattern,
\* in the fixed order, that matches at all.
NumberScores(t) ==
    { Normalize(FloatOfGroup(LeftmostMatch(k, t).group)) :
        k \in { h \in 1..NumPatterns :
                  /\ HasMatch(h, t)
                  /\ \A j \in 1..(h - 1) : ~HasMatch(j, t) } }

\* C26: a text with at least one digit is always matched by the bare-decimal
\* pattern and is scored from its first matching number, whatever adjectives
\* it contains; the keyword bands are reached only by texts without a digit.
C26_DigitsBeatKeywords ==
    recPhase = "done" /\ Truthy(recText) =>
        /\ HasDigit(recText) =>
              /\ HasMatch(NumPatterns, Lower(recText))
              /\ \E x \in NumberScores(Lower(recText)) : DecEq(recScore, x)
        /\ (\A k \in 1..NumPatterns : FindAll(k, Lower(recText)) = <<>>)
              => ~HasDigit(recText)

\* "Poor implementation with score 3.5" scores 3.5, not the poor band's 4.0.
C26_Witness ==
    /\ recPhase = "done"
    /\ recText = <<"Poor", " ", "implementation", " ", "with", " ", "score",
                   " ", "3", ".", "5">>
    /\ DecEq(recScore, Dec(35, 1))

\* The band of a word of the inputs, in any capitalisation and inside a longer
\* word: 1 excellent, 2 good, 3 adequate, 4 poor, 0 for a word of no band.
BandOfWord(c) ==
    CASE c \in {"Excellent", "excellent", "outstanding", "exceptional"} -> 1
      [] c \in {"Good", "good", "solid", "well", "unwell", "goodness"} -> 2
      [] c \in {"Adequate", "adequate", "acceptable", "reasonable"} -> 3
      [] c \in {"Poor", "poor", "lacking", "insufficient"} -> 4
      [] OTHER -> 0

BandsOf(t) == { BandOfWord(t[i]) : i \in 1..Len(t) } \ {0}

BandValue(b) ==
    CASE b = 1 -> Dec(90, 1) [] b = 2 -> Dec(75, 1)
      [] b = 3 -> Dec(65, 1) [] b = 4 -> Dec(40, 1)

\* C23: when no numeric pattern matches a non-empty text, the score is the
\* value of the first band, in the order excellent 9.0, good 7.5, adequate
\* 6.5, poor 4.0, of which a keyword occurs in the text, in any case and as a
\* substring, even when keywords of later bands occur too; 7.0 with no keyword.
C23_FirstKeywordBandWins ==
    recPhase = "done" /\ Truthy(recText)
    /\ (\A k \in 1..NumPatterns : ~HasMatch(k, Lower(recText)))
    =>  IF BandsOf(recText) = {} THEN recScore = Dec(70, 1)
        ELSE \E b \in BandsOf(recText) :
                /\ \A c \in BandsOf(recText) : b <= c
                /\ recScore = BandValue(b)

\* "Poor unwell": the good band, found inside "unwell", wins over poor.
C23_Witness ==
    /\ recPhase = "done"
    /\ recText = <<"Poor", " ", "unwell">>
    /\ recScore = Dec(75, 1)

(***************************************************************************)
(* Claims about the aggregators, checked under SpecAggregate.              *)
(***************************************************************************)
InOneToTen(x) == DecLeq(Dec(1, 0), x) /\ DecLeq(x, Dec(10, 0))

\* C5: in every EvaluationResult and SessionEvaluationResult built by the
\* aggregator, for any raw engine output fields, each of the five per-dimension
\* scores lies in [1.0, 10.0] and overall_score lies in [1, 10].
C5_ResultScoresInRange ==
    aggPhase = "done" =>
        /\ \A d \in DOMAIN aggResult.scores : InOneToTen(aggResult.scores[d])
        /\ InOneToTen(aggResult.overall_score)

\* C6: for every dimension whose raw engine field is non-empty, the score the
\* aggregator records equals extract_numeric_score applied to that field (so
\* "8/10" gives 8.0, "Excellent" 9.0 and an unparsable field 7.0).
C6_RecordedScoreIsRecovered ==
    aggPhase = "done" =>
        \A d \in DOMAIN aggFields :
            Truthy(aggFields[d]) =>
                DecEq(aggResult.scores[d], extract_numeric_score(aggFields[d]))

\* A score in hundredths (the scores of FieldTexts have at most two decimals).
Hundredths(x) == x.m * Pow10(2 - x.s)

RECURSIVE SumHundredths(_, _)
SumHundredths(f, keys) ==
    IF keys = {} THEN 0
    ELSE LET k == CHOOSE x \in keys : TRUE
         IN  Hundredths(f[k]) + SumHundredths(f, keys \ {k})

HasContentText(v) ==
    /\ v.t = "dict"
    /\ HasKey(v, "content")
    /\ Lookup(v, "content").t = "list"
    /\ Len(Lookup(v, "content").items) >= 1
    /\ Lookup(v, "content").items[1].t = "dict"
    /\ HasKey(Lookup(v, "content").items[1], "text")
    /\ Lookup(Lookup(v, "content").items[1], "text").t = "str"

\* Whether content[0].text exists in the value, whatever it holds.
HasContentPath(v) ==
    /\ v.t = "dict"
    /\ HasKey(v, "content")
    /\ Lookup(v, "content").t = "list"
    /\ Len(Lookup(v, "content").items) >= 1
    /\ Lookup(v, "content").items[1].t = "dict"
    /\ HasKey(Lookup(v, "content").items[1], "text")

ContentReached == extGuidance.kind = "literal" /\ HasContentText(extGuidance.value)

\* The markdown text of the transcript, its escaped newlines made real ones.
Markdown ==
    [i \in 1..Len(Lookup(Lookup(extGuidance.value, "content").items[1], "text").v) |->
        LET c == Lookup(Lookup(extGuidance.value, "content").items[1], "text").v[i]
        IN  IF c = "\\n" THEN "\n" ELSE c]

OpenAt(c, i) ==
    /\ i + 2 <= Len(c)
    /\ c[i] = "<fence>" /\ c[i + 1] = "markdown" /\ c[i + 2] = "\n"

OpeningMarkers(c) == { i \in 1..Len(c) : OpenAt(c, i) }

BothAbsent == extOutcome.session = PyNone /\ extOutcome.model = PyNone

\* C7: for every raw transcript, whenever extract_guidance_sections returns it
\* returns either both sections or neither, never one section without the
\* other; and a transcript whose markdown text has fewer than two opening fence
\* markers yields both sections absent.
C7_BothOrNeither ==
    extPhase = "done" =>
        /\ extOutcome.status = "returned" =>
              ((extOutcome.session = PyNone) <=> (extOutcome.model = PyNone))
        /\ (ContentReached /\ Cardinality(OpeningMarkers(Markdown)) < 2) =>
              (extOutcome.status = "returned" /\ BothAbsent)

\* A transcript with one fenced block only: both sections absent.
C7_Witness ==
    /\ extPhase = "done"
    /\ ContentReached
    /\ Markdown = <<"<fence>", "markdown", "\n", "a", "<fence>">>
    /\ extOutcome.status = "returned"
    /\ BothAbsent

\* C8: for every raw transcript text, extract_guidance_sections returns
\* (None, None) without raising whenever deserialization fails or the path
\* content[0].text is missing from the deserialized structure, whatever the
\* shape of that structure.
C8_FailureGivesAbsent ==
    extPhase = "done" =>
        ((extGuidance.kind = "malformed" \/ ~HasContentPath(extGuidance.value))
            => (extOutcome.status = "returned" /\ BothAbsent))

\* The least index of c from i on that holds a fence, 0 if there is none.
NextFence(c, i) ==
    IF \E j \in i..Len(c) : c[j] = "<fence>"
    THEN CHOOSE j \in i..Len(c) :
            c[j] = "<fence>" /\ \A x \in i..(j - 1) : c[x] # "<fence>"
    ELSE 0

\* The least opening marker of c from i on, 0 if there is none.
NextOpen(c, i) ==
    IF \E j \in i..Len(c) : OpenAt(c, j)
    THEN CHOOSE j \in i..Len(c) : OpenAt(c, j) /\ \A x \in i..(j - 1) : ~OpenAt(c, x)
    ELSE 0

\* The first two fenced blocks of c, when c holds at least two opening markers
\* and each of the first two is closed by a fence before the next opening marker.
FirstOpen(c) == NextOpen(c, 1)
SecondOpen(c) == NextOpen(c, FirstOpen(c) + 3)
FirstClose(c) == NextFence(c, FirstOpen(c) + 3)
SecondClose(c) == NextFence(c, SecondOpen(c) + 3)

TwoFencedBlocks(c) ==
    /\ FirstOpen(c) # 0
    /\ SecondOpen(c) # 0
    /\ FirstClose(c) # 0 /\ FirstClose(c) < SecondOpen(c)
    /\ SecondClose(c) # 0 /\ ~OpenAt(c, SecondClose(c))

Trimmed(t) == t = <<>> \/ (~IsSpace(t[1]) /\ ~IsSpace(t[Len(t)]))

NoFence(t) == \A i \in 1..Len(t) : t[i] # "<fence>"

\* t without its leading and trailing whitespace is u.
TrimsTo(t, u) ==
    \E i \in 1..(Len(t) + 1) : \E j \in 0..Len(t) :
        /\ u = SubSeq(t, i, j)
        /\ \A x \in 1..(i - 1) : IsSpace(t[x])
        /\ \A x \in (j + 1)..Len(t) : IsSpace(t[x])
        /\ Trimmed(u)

\* C9: given a well-formed payload whose content holds two or more fenced
\* markdown blocks, extract_guidance_sections returns the first block as the
\* session section and the second as the design section, each cut at its
\* closing fence and trimmed, so that neither section contains a fence marker;
\* further fenced blocks and the text outside the two blocks are ignored.
C9_FirstTwoBlocks ==
    (extPhase = "done" /\ ContentReached /\ TwoFencedBlocks(Markdown)) =>
        /\ extOutcome.status = "returned"
        /\ TrimsTo(SubSeq(Markdown, FirstOpen(Markdown) + 3, FirstClose(Markdown) - 1),
                   extOutcome.session)
        /\ TrimsTo(SubSeq(Markdown, SecondOpen(Markdown) + 3, SecondClose(Markdown) - 1),
                   extOutcome.model)
        /\ NoFence(extOutcome.session) /\ NoFence(extOutcome.model)

\* Reasoning text around three fenced blocks: the first two are returned.
C9_Witness ==
    /\ extPhase = "done"
    /\ ContentReached
    /\ TwoFencedBlocks(Markdown)
    /\ Cardinality(OpeningMarkers(Markdown)) = 3
    /\ FirstOpen(Markdown) > 1
    /\ extOutcome.session = <<"a">>
    /\ extOutcome.model = <<"b", " ", "a">>

(***************************************************************************)
(* Claims about the evaluation run, checked under SpecRun.                 *)
(***************************************************************************)
ExtractionGaveNothing ==
    /\ runSections.status = "returned"
    /\ runSections.session = PyNone
    /\ runSections.model = PyNone

\* C10: when extract_guidance_sections returns both sections absent, the run
\* goes straight to reporting: no method of the evaluation engine is invoked,
\* the report's status is not error, its session_evaluation and
\* model_evaluation are absent and its two section texts are empty.
C10_NothingExtractedNothingEvaluated ==
    (runPc = "reported" /\ ExtractionGaveNothing) =>
        /\ runEngineCalls = <<>>
        /\ runReport.status = "success"
        /\ IsNone(runReport.session_evaluation)
        /\ IsNone(runReport.model_evaluation)
        /\ runReport.modeling_session = <<>>
        /\ runReport.data_model = <<>>

\* A completed four-turn conversation whose answer holds one fenced block.
C10_Witness ==
    /\ runPc = "reported"
    /\ Len(runConversation) = 4
    /\ runGuidance = LiteralText(MessageWith(<<"<fence>", "markdown", "\\n", "a", "<fence>">>))
    /\ ExtractionGaveNothing
    /\ runReport.status = "success"

\* C11: in every report of every run, whatever the conversation, the extraction
\* and the engine did, the session evaluation and the model evaluation are
\* either both present or both absent.
C11_BothEvaluationsOrNeither ==
    runPc = "reported" =>
        (IsNone(runReport.session_evaluation) <=> IsNone(runReport.model_evaluation))

\* A report that holds both evaluations.
C11_Witness ==
    /\ runPc = "reported"
    /\ runReport.status = "success"
    /\ ~IsNone(runReport.session_evaluation)
    /\ ~IsNone(runReport.model_evaluation)

\* The session evaluation was obtained and the call of evaluate_guidance was
\* made and gave no result.
ModelFailedAfterSession ==
    /\ runPc = "reported"
    /\ ~IsNone(runSessionEvaluation)
    /\ Len(runEngineCalls) = 2
    /\ IsNone(runModelEvaluation)

\* C12 as stated: when the engine call for one family raises after the other
\* family's evaluation has completed, the result already obtained is preserved
\* in the returned report.
C12_OtherResultPreserved ==
    ModelFailedAfterSession =>
        /\ ~IsNone(runReport.session_evaluation)
        /\ runReport.session_evaluation.quality_level =
               runSessionEvaluation.quality_level

\* C12 amended: when the engine call for the model evaluation raises after the
\* session evaluation has completed, the whole run fails: the report has status
\* error and holds neither evaluation; the session result is dropped.
C12_FailureFailsTheRun ==
    ModelFailedAfterSession =>
        /\ runReport.status = "error"
        /\ ~runReport.has_sections
        /\ IsNone(runReport.session_evaluation)
        /\ IsNone(runReport.model_evaluation)

\* The session evaluation rated excellent, the model evaluation raised.
C12_Witness ==
    /\ ModelFailedAfterSession
    /\ runSessionEvaluation.quality_level = "excellent"
    /\ Len(runReasonerCalls) = 2
    /\ runReport.status = "error"

\* C13: every run of run_evaluation, whichever of the construction of the
\* evaluator, the conversation, the extraction, an engine call or an
\* aggregation fails, goes on until it returns a report, and the status of the
\* report is success, error or skipped; no exception reaches the caller.
C13_AlwaysAStructuredReport ==
    /\ [](runPc # "reported" => runReport.status = "none")
    /\ [](runPc = "reported" => runReport.status \in {"success", "error", "skipped"})
    /\ <>(runPc = "reported")

\* The evaluator was left without its conversation handler: status error.
C13_Witness ==
    /\ runPc = "reported"
    /\ ~runEvaluator.conversation_handler
    /\ runResult = NoComprehensiveResult
    /\ runReport.status = "error"
    /\ runReport.has_sections = FALSE
    /\ runEngineCalls = <<>>
    /\ runAgentCalls = <<>>
    /\ aws_available(runEnv)
    /\ runSections = NoSections

\* C14: when the agent raises at any point of simulate_conversation the run
\* goes on: the error text is the final guidance, its extraction returns with
\* both sections absent, no evaluation is run, and a report is returned, with
\* status success and both evaluations absent.
C14_ConversationFailureStillReports ==
    /\ [](runConversationRaised => runGuidance = ErrorGuidance)
    /\ [](runConversationRaised /\ runSections.status # "none" =>
              runSections = Returned(PyNone, PyNone))
    /\ [](runConversationRaised => runEngineCalls = <<>>)
    /\ [](runConversationRaised /\ runPc = "reported" =>
              /\ runReport.status = "success"
              /\ runReport.conversation = runConversation
              /\ IsNone(runReport.session_evaluation)
              /\ IsNone(runReport.model_evaluation))
    /\ (runConversationRaised ~> runPc = "reported")

\* The agent answered once and raised on the second message.
C14_Witness ==
    /\ runPc = "reported"
    /\ runConversationRaised
    /\ runAgentCalls = <<"returned", "raised">>
    /\ Len(runConversation) = 3
    /\ runReport.status = "success"

IsPrefix(s, t) == Len(s) <= Len(t) /\ SubSeq(t, 1, Len(s)) = s

FourTurns ==
    << [role |-> "user", turn_number |-> 1],
       [role |-> "assistant", turn_number |-> 2],
       [role |-> "user", turn_number |-> 3],
       [role |-> "assistant", turn_number |-> 4] >>

C16_LoadFailureStillEvaluates ==
    /\ Len(runReasonerCalls) = Len(runEngineCalls)
    /\ \A i \in 1..Len(runReasonerCalls) :
           /\ runReasonerCalls[i].expert_knowledge # PyNone
           /\ runReasonerCalls[i].content = runEngineCalls[i].content
    /\ runKnowledgeCache = FallbackMessage =>
           /\ runReasonerCalls # <<>>
           /\ \A i \in 1..Len(runReasonerCalls) :
                  runReasonerCalls[i].expert_knowledge = FallbackMessage

\* The document could not be loaded, both evaluators were called with the
\* placeholder and the run reported success.
C16_Witness ==
    /\ runPc = "reported"
    /\ runReport.status = "success"
    /\ runKnowledgeCache = FallbackMessage
    /\ Len(runReasonerCalls) = 2
    /\ runReasonerCalls[2].expert_knowledge = FallbackMessage
    /\ ~IsNone(runReport.model_evaluation)

EvaluatorOf(method) ==
    IF method = "evaluate_session" THEN "session_evaluator" ELSE "guidance_evaluator"

\* C17: each call of evaluate_session or evaluate_guidance calls its DSPy
\* evaluator exactly once, whether the evaluator returns or raises; a run
\* makes at most two such calls, at most one for each family.
C17_OneEngineCallPerFamily ==
    /\ Len(runReasonerCalls) = Len(runEngineCalls)
    /\ Len(runEngineCalls) <= 2
    /\ \A i \in 1..Len(runReasonerCalls) :
           runReasonerCalls[i].evaluator = EvaluatorOf(runEngineCalls[i].method)
    /\ \A i, j \in 1..Len(runReasonerCalls) :
           i # j => runReasonerCalls[i].evaluator # runReasonerCalls[j].evaluator

\* The session evaluator returned, the guidance evaluator raised, and neither
\* was called again.
C17_Witness ==
    /\ runPc = "reported"
    /\ runReport.status = "error"
    /\ ~IsNone(runSessionEvaluation)
    /\ IsNone(runModelEvaluation)
    /\ Len(runReasonerCalls) = 2
    /\ runReasonerCalls[1].evaluator = "session_evaluator"
    /\ runReasonerCalls[2].evaluator = "guidance_evaluator"

\* The phase the run is in: 0 INIT, 1 CONVERSING, 2 EXTRACTING, 3 evaluation
\* of the two families, 4 REPORTING, 5 DONE or FAILED.
PhaseRank(pc) ==
    CASE pc \in {"import", "imported", "construct", "scenario"} -> 0
      [] pc \in {"setup", "turn1", "turn2"} -> 1
      [] pc = "conversed" -> 2
      [] pc \in {"extracted", "session_evaluated"} -> 3
      [] pc \in {"model_evaluated", "returned"} -> 4
      [] pc = "reported" -> 5

\* C18: a run moves through the phases in order, a step staying in its phase,
\* entering the next one, or failing (or being skipped) straight to the
\* report; no engine call is made before the extraction has returned; the
\* result and the report are assembled only when every evaluation that was
\* started has finished; and every run ends with its report, DONE (success,
\* skipped) or FAILED (error).
C18_PhasesInOrder ==
    /\ [][\/ PhaseRank(runPc') = PhaseRank(runPc)
          \/ PhaseRank(runPc') = PhaseRank(runPc) + 1
          \/ /\ PhaseRank(runPc') >= 4
             /\ PhaseRank(runPc') > PhaseRank(runPc)
             /\ \/ ~runResult'.ok /\ runPc' = "returned"
                \/ runReport'.status \in {"skipped", "error"}]_vars
    /\ [](runEngineCalls # <<>> =>
              runSections.status = "returned" /\ PhaseRank(runPc) >= 3)
    /\ [](runResult.ok =>
              \/ /\ runEngineCalls = <<>>
                 /\ IsNone(runSessionEvaluation) /\ IsNone(runModelEvaluation)
              \/ /\ Len(runEngineCalls) = 2
                 /\ ~IsNone(runSessionEvaluation) /\ ~IsNone(runModelEvaluation))
    /\ [](runReport.status # "none" <=> runPc = "reported")
    /\ [][runPc = "reported" => runPc' = "reported"]_vars
    /\ <>(runPc = "reported")

\* A run that went through every phase: two turns of conversation, two
\* sections, two evaluations and a success report.
C18_Witness ==
    /\ runPc = "reported"
    /\ runReport.status = "success"
    /\ runAgentCalls = <<"returned", "returned">>
    /\ ~runConversationRaised
    /\ runSections.status = "returned"
    /\ Len(runEngineCalls) = 2
    /\ runResult.ok

\* The run has reported and the extraction had returned two sections.
ReportedWithBothSections ==
    /\ runPc = "reported"
    /\ runSections.status = "returned"
    /\ runSections.session # PyNone
    /\ runSections.model # PyNone

\* C19 as stated: whenever the extraction returns both sections, both
\* evaluations are run, the process family on the session section and the
\* design family on the design section, and both results are in the report.
C19_BothSectionsBothEvaluations ==
    ReportedWithBothSections =>
        /\ runEngineCalls =
               << EngineCall("evaluate_session", runSections.session),
                  EngineCall("evaluate_guidance", runSections.model) >>
        /\ ~IsNone(runReport.session_evaluation)
        /\ ~IsNone(runReport.model_evaluation)

\* C19 amended: whenever the extraction returns two non-empty sections and
\* the evaluator has its engine, evaluate_session is called on the session
\* section and, once it has returned a result, evaluate_guidance on the design
\* section, each by its own evaluator; the report holds both results when
\* both calls returned one, and has status error and no result otherwise.
C19_NonEmptySectionsAreEvaluated ==
    ReportedWithBothSections
    /\ Truthy(runSections.session) /\ Truthy(runSections.model)
    /\ runEvaluator.dspy_engine
    =>  /\ runEngineCalls # <<>>
        /\ runEngineCalls[1] = EngineCall("evaluate_session", runSections.session)
        /\ runReasonerCalls[1] =
               ReasonerCall("session_evaluator", runSections.session,
                            runReasonerCalls[1].expert_knowledge)
        /\ IF IsNone(runSessionEvaluation)
           THEN Len(runEngineCalls) = 1
           ELSE /\ Len(runEngineCalls) = 2
                /\ runEngineCalls[2] =
                       EngineCall("evaluate_guidance", runSections.model)
                /\ runReasonerCalls[2] =
                       ReasonerCall("guidance_evaluator", runSections.model,
                                    runReasonerCalls[2].expert_knowledge)
        /\ IF ~IsNone(runSessionEvaluation) /\ ~IsNone(runModelEvaluation)
           THEN /\ runReport.status = "success"
                /\ runReport.session_evaluation = runSessionEvaluation
                /\ runReport.model_evaluation = runModelEvaluation
           ELSE /\ runReport.status = "error"
                /\ IsNone(runReport.session_evaluation)
                /\ IsNone(runReport.model_evaluation)

\* Two different non-empty sections, each evaluated, both results reported.
C19_Witness ==
    /\ ReportedWithBothSections
    /\ Truthy(runSections.session) /\ Truthy(runSections.model)
    /\ runSections.session # runSections.model
    /\ Len(runEngineCalls) = 2
    /\ runReport.status = "success"
    /\ ~IsNone(runReport.session_evaluation)
    /\ ~IsNone(runReport.model_evaluation)

(***************************************************************************)
(* Claims about _to_text, checked under SpecText.                          *)
(***************************************************************************)
\* The first of message, text, content that holds a string, if any.
FirstStringAttribute(x) ==
    IF x.message.kind = "str" THEN x.message
    ELSE IF x.text.kind = "str" THEN x.text
    ELSE IF x.content.kind = "str" THEN x.content
    ELSE AttributeMissing

\* C20: _to_text never raises; it returns a string unchanged, otherwise the
\* first of the attributes message, text, content that holds a string,
\* otherwise str(x), and the empty string when str(x) fails.
C20_ToTextNeverRaises ==
    txtPhase = "done" =>
        txtOutcome =
            IF txtResponse.type = "str" THEN TextReturned(txtResponse.value)
            ELSE IF FirstStringAttribute(txtResponse).kind = "str"
                 THEN TextReturned(FirstStringAttribute(txtResponse).text)
            ELSE IF txtResponse.str.exc = "none"
                 THEN TextReturned(txtResponse.str.text)
            ELSE TextReturned(<<>>)

(***************************************************************************)
(* Claims about the document loader, checked under SpecDocument.           *)
(***************************************************************************)
FileTypeOf(tool) ==
    CASE tool = "read_pdf" -> "PDF file"
      [] tool = "read_docx" -> "Word document"
      [] tool = "read_xlsx" -> "Excel file"
      [] tool = "read_pptx" -> "PowerPoint file"

\* C21: read_pdf, read_docx, read_xlsx and read_pptx never raise; for a path
\* that names no file they return a text beginning "Error: Could not find
\* <file type>", for any other failure a text beginning "Error reading <file
\* type>".  read_image raises FileNotFoundError for a missing file and
\* RuntimeError caused by ValueError for an existing file whose extension is
\* not supported.
C21_LoaderErrors ==
    docPhase = "done" =>
        IF docCall.tool = "read_image"
        THEN /\ ~docCall.file.exists =>
                    /\ docOutcome.status = "raised"
                    /\ docOutcome.exc = "FileNotFoundError"
             /\ docCall.file.exists
                /\ docCall.file.suffix \in {".pdf", ".docx", ".unsupported", ""} =>
                    /\ docOutcome.status = "raised"
                    /\ docOutcome.exc = "RuntimeError"
                    /\ docOutcome.cause = "ValueError"
        ELSE /\ docOutcome.status = "returned"
             /\ ~docCall.file.exists =>
                    SubSeq(docOutcome.text, 1, 2) =
                        <<"Error: Could not find ", FileTypeOf(docCall.tool)>>
             /\ docCall.file.exists /\ docCall.file.library # "returns" =>
                    SubSeq(docOutcome.text, 1, 2) =
                        <<"Error reading ", FileTypeOf(docCall.tool)>>

\* read_xlsx on a path that names no file.
C21_Witness ==
    /\ docPhase = "done"
    /\ docCall.tool = "read_xlsx"
    /\ ~docCall.file.exists
    /\ docOutcome = LoaderReturned(CouldNotFind("Excel file"))

(***************************************************************************)
(* Further claims about a run, checked under SpecRun and SpecRunFair.      *)
(***************************************************************************)
\* evaluate_session was called and gave no result: it raised.
SessionCallRaised ==
    /\ runEngineCalls # <<>>
    /\ IsNone(runSessionEvaluation)

\* C27: the session evaluation completes before the design evaluation starts:
\* evaluate_guidance is only ever the second engine call, made after
\* evaluate_session has returned its result; and when the engine call of the
\* session evaluation raises, evaluate_guidance is never called and the run
\* ends with status error.
C27_SessionThenDesign ==
    /\ [](\A i \in 1..Len(runEngineCalls) :
              runEngineCalls[i].method = "evaluate_guidance" =>
                  /\ i = 2
                  /\ runEngineCalls[1].method = "evaluate_session"
                  /\ ~IsNone(runSessionEvaluation))
    /\ [](SessionCallRaised =>
              /\ Len(runEngineCalls) = 1
              /\ runEngineCalls[1].method = "evaluate_session"
              /\ runPc \in {"returned", "reported"}
              /\ runPc = "reported" => runReport.status = "error")
    /\ [][SessionCallRaised => runEngineCalls' = runEngineCalls]_vars
    /\ (SessionCallRaised ~> runReport.status = "error")

\* The session evaluator was called and raised: one engine call, status error.
C27_Witness ==
    /\ runPc = "reported"
    /\ SessionCallRaised
    /\ Len(runReasonerCalls) = 1
    /\ runReasonerCalls[1].evaluator = "session_evaluator"
    /\ runReport.status = "error"

\* C28: in every report the conversation record is a prefix of (user 1,
\* assistant 2, user 3, assistant 4): the turns appended before a failure are
\* kept, so it holds 0 to 4 turns, the turn numbers are 1, 2, ... without a gap
\* or a repetition, and the roles alternate from user.
C28_ConversationIsAPrefix ==
    runPc = "reported" =>
        /\ IsPrefix(runReport.conversation, FourTurns)
        /\ runReport.status = "success" => runReport.conversation = runConversation
        /\ \A i \in 1..Len(runReport.conversation) :
               /\ runReport.conversation[i].turn_number = i
               /\ runReport.conversation[i].role =
                      IF i % 2 = 1 THEN "user" ELSE "assistant"

\* The agent raised in the second exchange: the report keeps three turns.
C28_Witness ==
    /\ runPc = "reported"
    /\ runReport.status = "success"
    /\ runAgentCalls = <<"returned", "raised">>
    /\ runReport.conversation = SubSeq(FourTurns, 1, 3)

\* The key pair, or the profile alone, is in the environment (with any value).
CredentialsSet(env) ==
    \/ env.AWS_ACCESS_KEY_ID # "<unset>" /\ env.AWS_SECRET_ACCESS_KEY # "<unset>"
    \/ env.AWS_PROFILE # "<unset>"

\* C30: run_evaluation returns status skipped exactly when neither the AWS key
\* pair nor AWS_PROFILE is set at the time of the call, and then the evaluator
\* has not been constructed and no external call has been made; importing the
\* module sets AWS_PROFILE when it is absent, so a run whose environment is
\* left as the import made it never returns skipped.
C30_SkippedWithoutCredentials ==
    /\ runPc \notin {"import", "imported"} =>
           (runReport.status = "skipped" <=> ~CredentialsSet(runEnv))
    /\ runReport.status = "skipped" =>
           /\ runPc = "reported"
           /\ runEvaluator = NoEvaluator
           /\ runAgentCalls = <<>>
           /\ runEngineCalls = <<>>
           /\ runReasonerCalls = <<>>
           /\ runConversation = <<>>
    /\ runPc = "imported" => runEnv.AWS_PROFILE \notin {"<unset>", ""}
    /\ runPc \notin {"import", "imported"} /\ ~runEnvTouched =>
           runReport.status # "skipped"

\* AWS_PROFILE removed after the import and half a key pair set: skipped.
C30_Witness ==
    /\ runPc = "reported"
    /\ runEnvTouched
    /\ runEnv.AWS_PROFILE = "<unset>"
    /\ runEnv.AWS_ACCESS_KEY_ID = "k"
    /\ runEnv.AWS_SECRET_ACCESS_KEY = "<unset>"
    /\ runReport.status = "skipped"

(***************************************************************************)
(* Claims about the durations of a report, checked under SpecTiming.       *)
(***************************************************************************)
\* C29: in every success report, performance_metadata.total_duration is the
\* sum of conversation_duration, session_evaluation_duration and
\* model_evaluation_duration, and both evaluation durations are exactly 0
\* whenever the evaluations were skipped.
C29_TotalIsTheSum ==
    timReport.status = "success" =>
        /\ timReport.total_duration =
               timReport.conversation_duration
               + timReport.session_evaluation_duration
               + timReport.model_evaluation_duration
        /\ timReport.conversation_duration = timDurations.conversation
        /\ ~timEvaluated =>
               /\ timReport.session_evaluation_duration = 0
               /\ timReport.model_evaluation_duration = 0

\* Evaluations skipped: the clock ran for longer than the conversation took,
\* and the total reported is the conversation's duration.
C29_Witness ==
    /\ timReport.status = "success"
    /\ ~timEvaluated
    /\ timReport.conversation_duration = 1
    /\ timReport.total_duration = 1
    /\ timTotal = 3

(***************************************************************************)
(* Claims about the expert-knowledge cache of one engine.                  *)
(***************************************************************************)
\* The expert knowledge every finished call passed is what the cache holds.
PassedTheCache ==
    \A i \in 1..Len(engPassed) : engPassed[i].expert_knowledge = engCache

\* C24: over any sequence of evaluate_guidance and evaluate_session calls made
\* one after the other on one engine, the expert-knowledge document is read at
\* most once: the cache is assigned at most once, holds that value (the text
\* or the failure placeholder) from the first call on, and every call passes
\* that same value to its evaluator.
C24_KnowledgeReadOnce ==
    /\ engFileReads <= 1
    /\ Len(engCacheWrites) <= 1
    /\ engCacheWrites # <<>> => engCache = engCacheWrites[1]
    /\ engPassed # <<>> => engCache # PyNone /\ engFileReads = 1
    /\ PassedTheCache

\* Three calls of both methods have passed the failure placeholder, read once.
C24_Witness ==
    /\ Len(engPassed) = MaxEngineCalls
    /\ engFileReads = 1
    /\ engCache = FallbackMessage
    /\ { engPassed[i].method : i \in 1..Len(engPassed) } = EngineMethods
    /\ PassedTheCache

\* C25: when two evaluations on the same engine call _load_expert_knowledge
\* concurrently while the cache is None, the document is loaded once only, the
\* cache is written once only, and both callers pass the value the cache keeps.
C25_LoadedOnceUnderConcurrency ==
    /\ engFileReads <= 1
    /\ Len(engCacheWrites) <= 1
    /\ PassedTheCache

=============================================================================
